---- MODULE Spec2Model ----
(***************************************************************************)
(* Model of the bookkeeping backend (src/server.js).                       *)
(*                                                                         *)
(* The first part is the statutory due-date handler                        *)
(* GET /api/due-dates/:userId: the profile lookup, the three agency        *)
(* branches, the two calendar helpers and the final stale-entry filter.    *)
(* Spec is one request at a time over every profile and clock reading,     *)
(* SpecCalendar the calendar helper alone, SpecConcurrent two requests in  *)
(* flight at once over a table of three users.                             *)
(*                                                                         *)
(* The second part is the routes that write the tables: SpecMessages the   *)
(* message routes (post, unread, mark-read), SpecReset forgot-password and *)
(* reset-password with two requests in flight, SpecPersonalInfo the        *)
(* personal-info save with two requests in flight, SpecDocuments the       *)
(* upload, download and delete of documents.  A handler that issues        *)
(* several queries is one action per query callback, since callbacks of    *)
(* other requests run in between.                                          *)
(*                                                                         *)
(* Conventions                                                             *)
(*  - a JavaScript string that the code slices, pads, formats or parses is *)
(*    a sequence of one-character strings; a string that is only compared  *)
(*    or concatenated (employment_status, description) is a TLA+ string;   *)
(*  - SQL NULL is the value NULL in a membership-number column and the     *)
(*    value NullStatus in the column employment_status;                    *)
(*  - a JavaScript time value (milliseconds since the epoch, UTC) is kept  *)
(*    in whole minutes, every instant of the model being a whole minute;   *)
(*  - a Number that may be NaN is a record [isNaN, val];                   *)
(*  - undefined, as in results[0] of an empty array, is the value NoRow.   *)
(***************************************************************************)
EXTENDS Integers, Sequences, FiniteSets

VARIABLES
  tz,             \* offset of the server's local time zone from UTC, in minutes
  personal_info,  \* table personal_info: user id -> row, or NoRow
  pc,             \* position of the due-date request: "idle", "query", "done"
  userId,         \* req.params.userId of the request
  userInfo,       \* results[0] as read by the callback
  asOf,           \* local wall-clock reading of the server clock at the callback
  now,            \* const now = new Date(), as a time value
  dueDates,       \* the local array dueDates (the candidates) at the end of the callback
  res,            \* the response sent
  err,            \* the argument err of the query callback
  cal,            \* a call of the helper getLastDayOfMonth and its result
  reqs,           \* the requests in flight at once: slot -> the locals of its handler
  users,          \* table users: id -> row
  clock,          \* NOW() of the database server, in hours
  issued,         \* number of reset tokens drawn so far from crypto.randomBytes
  dependents,     \* table dependents, in insertion order
  documents,      \* table documents: its rows and its AUTO_INCREMENT counter
  storage,        \* the stored files: Cloudinary assets and the local directory uploads
  messages,       \* table messages, in insertion order
  op              \* the request being served by a documents or messages handler

vars ==
  <<tz, personal_info, pc, userId, userInfo, asOf, now, dueDates, res, err, cal, reqs,
    users, clock, issued, dependents, documents, storage, messages, op>>

\* the tables and files that the due-date handler does not touch
appVars == <<users, clock, issued, dependents, documents, storage, messages, op>>

dueVars == <<pc, userId, userInfo, asOf, now, dueDates, res, err>>

(***************************************************************************)
(* Bounds of the model.                                                    *)
(***************************************************************************)
\* last year in which the server clock is read by the due-date handler
MaxYear == 2024
\* last year passed to getLastDayOfMonth in the calendar specification
MaxCalYear == 2101

Years == (MaxYear - 1)..MaxYear
Months == 1..12
CalYears == 1895..MaxCalYear
\* 00:00, 08:00, 12:00 and 20:00 local time
TimesOfDay == {0, 480, 720, 1200}
\* the zone of the host is not set by the code: a host five hours west of
\* UTC, one in UTC and one in Asia/Manila (UTC+8)
TimeZones == {-300, 0, 480}
UserIds == {1}

\* the readings of the server clock: day 1, day 15 and the last day of every month
AsOfs ==
  UNION {{[year |-> y, month |-> m, day |-> d, minute |-> t] :
            d \in {1, 15, IF m = 2 THEN (IF (y % 4 = 0 /\ y % 100 # 0) \/ y % 400 = 0 THEN 29 ELSE 28)
                          ELSE IF m \in {4, 6, 9, 11} THEN 30 ELSE 31},
            t \in TimesOfDay} :
         y \in Years, m \in Months}

(***************************************************************************)
(* Values.                                                                 *)
(***************************************************************************)
NULL == <<"NULL">>
NullStatus == "<NULL>"
NoRow == [absent |-> TRUE]
NoDate == [year |-> 0, month |-> 0, day |-> 0, minute |-> 0]

DigitChars == <<"0", "1", "2", "3", "4", "5", "6", "7", "8", "9">>
DigitSet == {DigitChars[i] : i \in 1..10}

\* membership numbers: absent, empty, or a text; a PhilHealth number ends in
\* every digit and in a character that is no digit
PhilHealthNumbers ==
  {NULL, <<>>} \cup {<<"8", c>> : c \in {"1", "2", "3", "4", "5"}}
               \cup {<<"3", c>> : c \in {"0", "6", "7", "8", "9", "X"}}
SssNumbers == {NULL, <<>>, <<"3", "4">>}
PagIbigNumbers == {NULL, <<>>, <<"1", "2">>}
\* column employment_status ENUM('employed','self-employed'), nullable; '' is
\* what MySQL stores for a value outside the enumeration
Statuses == {"employed", "self-employed", "", NullStatus}

Rows ==
  [employment_status : Statuses, philhealth_number : PhilHealthNumbers,
   sss_number : SssNumbers, pagibig_number : PagIbigNumbers]

NoCall == [pc |-> "idle", year |-> 0, month |-> 0, result |-> 0]

\* variant: only the empty text counts as absent, null as present
NotEmpty(v) == Len(v) > 0

\* variant: only null counts as absent, an empty text as present
NotNull(v) == v # NULL

\* JavaScript truthiness of a column value: null and '' are falsy
Truthy(v) == v # NULL /\ Len(v) > 0

(***************************************************************************)
(* The Gregorian calendar, written independently of the code: used to      *)
(* enumerate the days of the clock and to state the claims.                *)
(***************************************************************************)
IsLeapYear(y) == (y % 4 = 0 /\ y % 100 # 0) \/ y % 400 = 0

GregorianDays(y, m) ==
  IF m \in {1, 3, 5, 7, 8, 10, 12} THEN 31
  ELSE IF m \in {4, 6, 9, 11} THEN 30
  ELSE IF IsLeapYear(y) THEN 29 ELSE 28

(***************************************************************************)
(* The Date object: ECMAScript's day arithmetic (ECMA-262, 21.4.1).        *)
(***************************************************************************)
DayFromYear(y) ==
  365 * (y - 1970) + ((y - 1969) \div 4) - ((y - 1901) \div 100) + ((y - 1601) \div 400)

DaysInYear(y) ==
  IF y % 4 # 0 THEN 365
  ELSE IF y % 100 # 0 THEN 366
  ELSE IF y % 400 # 0 THEN 365 ELSE 366

\* the largest year whose first day is not after day
YearFromDay(day) ==
  LET e == 1970 + (day \div 365)
  IN  CHOOSE y \in (e - 1)..(e + 1) : DayFromYear(y) <= day /\ day < DayFromYear(y + 1)

InLeapYear(day) == IF DaysInYear(YearFromDay(day)) = 366 THEN 1 ELSE 0

DayWithinYear(day) == day - DayFromYear(YearFromDay(day))

\* first day within the year of month index mi (0..11), and of index 12
MonthStart(mi, leap) ==
  IF mi = 0 THEN 0
  ELSE IF mi = 1 THEN 31
  ELSE <<59, 90, 120, 151, 181, 212, 243, 273, 304, 334, 365>>[mi - 1] + leap

\* MonthFromTime: 0..11
MonthFromDay(day) ==
  LET d == DayWithinYear(day)
      leap == InLeapYear(day)
  IN  CHOOSE mi \in 0..11 : MonthStart(mi, leap) <= d /\ d < MonthStart(mi + 1, leap)

\* DateFromTime: 1..31
DateFromDay(day) ==
  DayWithinYear(day) - MonthStart(MonthFromDay(day), InLeapYear(day)) + 1

\* MakeDay(year, month, date), month being a month index that may exceed 11
MakeDay(year, mi, date) ==
  LET ym == year + (mi \div 12)
      mn == mi % 12
      leap == IF DaysInYear(ym) = 366 THEN 1 ELSE 0
  IN  DayFromYear(ym) + MonthStart(mn, leap) + date - 1

\* new Date() read as a time value: the local wall clock asOf, seen from UTC
TimeValue(a, zone) == MakeDay(a.year, a.month - 1, a.day) * 1440 + a.minute - zone

\* LocalTime(t) / msPerDay
LocalDay(t, zone) == (t + zone) \div 1440

\* now.getMonth() and now.getFullYear()
GetMonth(t, zone) == MonthFromDay(LocalDay(t, zone))
GetFullYear(t, zone) == YearFromDay(LocalDay(t, zone))

(***************************************************************************)
(* Strings: String(n), padStart, slice(-1), parseInt, the template that    *)
(* formats a due date and Date's parser of the date-only form.             *)
(***************************************************************************)
RECURSIVE NumberToString(_)
NumberToString(n) ==
  IF n < 10 THEN <<DigitChars[n + 1]>>
  ELSE NumberToString(n \div 10) \o <<DigitChars[(n % 10) + 1]>>

RECURSIVE PadStart(_, _, _)
PadStart(s, len, c) == IF Len(s) >= len THEN s ELSE PadStart(<<c>> \o s, len, c)

\* s.slice(-1)
SliceLast(s) == IF Len(s) = 0 THEN <<>> ELSE <<s[Len(s)]>>

DigitValue(c) == CHOOSE i \in 0..9 : DigitChars[i + 1] = c

RECURSIVE DigitsValue(_)
DigitsValue(s) ==
  IF Len(s) = 0 THEN 0
  ELSE 10 * DigitsValue(SubSeq(s, 1, Len(s) - 1)) + DigitValue(s[Len(s)])

RECURSIVE LeadingDigits(_)
LeadingDigits(s) ==
  IF Len(s) = 0 \/ s[1] \notin DigitSet THEN <<>>
  ELSE <<s[1]>> \o LeadingDigits(Tail(s))

NaN == [isNaN |-> TRUE, val |-> 0]
Num(n) == [isNaN |-> FALSE, val |-> n]

\* parseInt(s) of a string without sign or white space: its leading digits
ParseInt(s) ==
  IF LeadingDigits(s) = <<>> THEN NaN ELSE Num(DigitsValue(LeadingDigits(s)))

\* `${y}-${String(m).padStart(2, '0')}-${String(d).padStart(2, '0')}`
FormatDate(y, m, d) ==
  NumberToString(y) \o <<"-">> \o PadStart(NumberToString(m), 2, "0")
              \o <<"-">> \o PadStart(NumberToString(d), 2, "0")

AllDigits(s) == \A i \in 1..Len(s) : s[i] \in DigitSet

\* new Date(s) for the date-only form YYYY-MM-DD: midnight UTC of that date,
\* NaN (Invalid Date) for a month or day out of range; the handler passes it
\* no text of another form
DateParse(s) ==
  IF /\ Len(s) = 10
     /\ s[5] = "-" /\ s[8] = "-"
     /\ AllDigits(SubSeq(s, 1, 4)) /\ AllDigits(SubSeq(s, 6, 7)) /\ AllDigits(SubSeq(s, 9, 10))
  THEN LET y == DigitsValue(SubSeq(s, 1, 4))
           m == DigitsValue(SubSeq(s, 6, 7))
           d == DigitsValue(SubSeq(s, 9, 10))
       IN  IF m \in 1..12 /\ d \in 1..31
           THEN Num(MakeDay(y, m - 1, d) * 1440)
           ELSE NaN
  ELSE NaN

(***************************************************************************)
(* The due-date handler, src/server.js 1165-1283.                          *)
(***************************************************************************)
Entry(agency, description, dueDate, membershipNumber) ==
  [agency |-> agency, description |-> description,
   dueDate |-> dueDate, membershipNumber |-> membershipNumber]

\* const currentMonth = now.getMonth() + 1
CurrentMonth(t, zone) == GetMonth(t, zone) + 1

\* const currentYear = now.getFullYear()
CurrentYear(t, zone) == GetFullYear(t, zone)

\* variant: new Date(year, month + 1, 0), the last day of the following month
GetLastDayOfMonthNext(year, month) ==
  LET fullYear == IF year \in 0..99 THEN 1900 + year ELSE year
  IN  DateFromDay(MakeDay(fullYear, month + 1, 0))

\* variant: new Date(year, month - 1, 0), the month taken as a month index plus one
GetLastDayOfMonthIndexOff(year, month) ==
  LET fullYear == IF year \in 0..99 THEN 1900 + year ELSE year
  IN  DateFromDay(MakeDay(fullYear, month - 1, 0))

\* new Date(year, month, 0).getDate(); a year 0..99 is taken as 1900 + year
GetLastDayOfMonth(year, month) ==
  LET fullYear == IF year \in 0..99 THEN 1900 + year ELSE year
  IN  DateFromDay(MakeDay(fullYear, month, 0))

\* variant: Math.floor(month / 3)
QuarterFloor(month) == month \div 3

\* Math.ceil(month / 3)
Quarter(month) == (month + 2) \div 3

GetFirstDayOfNextQuarter(year, month) ==
  LET quarter == Quarter(month)
      nextQuarter == IF quarter = 4 THEN 1 ELSE quarter + 1
      nextYear == IF quarter = 4 THEN year + 1 ELSE year
      firstMonthOfQuarter == (nextQuarter - 1) * 3 + 1
  IN  [year |-> nextYear, month |-> firstMonthOfQuarter, day |-> 1]

\* const nextMonth = currentMonth === 12 ? 1 : currentMonth + 1
NextMonth(currentMonth) == IF currentMonth = 12 THEN 1 ELSE currentMonth + 1

\* variant: the year is not advanced after December
DueYearNoRollOver(currentYear, currentMonth) == currentYear

\* const dueYear = currentMonth === 12 ? currentYear + 1 : currentYear
DueYear(currentYear, currentMonth) ==
  IF currentMonth = 12 THEN currentYear + 1 ELSE currentYear

\* variant: lastDigit === 0 || lastDigit > 5 ? 20 : 15
PhilHealthDueDayNaNFifteen(philhealth_number) ==
  LET lastDigit == ParseInt(SliceLast(philhealth_number))
  IN  IF ~lastDigit.isNaN /\ (lastDigit.val = 0 \/ lastDigit.val > 5) THEN 20 ELSE 15

\* variant: lastDigit <= 5 without the lower limit
PhilHealthDueDayNoLowerLimit(philhealth_number) ==
  LET lastDigit == ParseInt(SliceLast(philhealth_number))
  IN  IF ~lastDigit.isNaN /\ lastDigit.val <= 5 THEN 15 ELSE 20

\* const dueDay = lastDigit >= 1 && lastDigit <= 5 ? 15 : 20
PhilHealthDueDay(philhealth_number) ==
  LET lastDigit == ParseInt(SliceLast(philhealth_number))
  IN  IF ~lastDigit.isNaN /\ lastDigit.val >= 1 /\ lastDigit.val <= 5 THEN 15 ELSE 20

\* variant: the self-employed entry is due at the end of the next month
PhilHealthEntriesSelfNextMonth(info, currentYear, currentMonth) ==
  IF Truthy(info.philhealth_number)
  THEN IF info.employment_status = "employed"
       THEN <<Entry("PhilHealth",
                    "PhilHealth contribution payment (Employed) - Form PMRF, ER2",
                    FormatDate(DueYear(currentYear, currentMonth),
                               NextMonth(currentMonth),
                               PhilHealthDueDay(info.philhealth_number)),
                    info.philhealth_number)>>
       ELSE IF info.employment_status = "self-employed"
       THEN <<Entry("PhilHealth",
                    "PhilHealth contribution payment (Self-employed) - Form PMRF, PPP5",
                    FormatDate(DueYear(currentYear, currentMonth),
                               NextMonth(currentMonth),
                               GetLastDayOfMonth(DueYear(currentYear, currentMonth),
                                                 NextMonth(currentMonth))),
                    info.philhealth_number)>>
       ELSE <<>>
  ELSE <<>>

\* lines 1198-1223
PhilHealthEntries(info, currentYear, currentMonth) ==
  IF Truthy(info.philhealth_number)
  THEN IF info.employment_status = "employed"
       THEN <<Entry("PhilHealth",
                    "PhilHealth contribution payment (Employed) - Form PMRF, ER2",
                    FormatDate(DueYear(currentYear, currentMonth),
                               NextMonth(currentMonth),
                               PhilHealthDueDay(info.philhealth_number)),
                    info.philhealth_number)>>
       ELSE IF info.employment_status = "self-employed"
       THEN <<Entry("PhilHealth",
                    "PhilHealth contribution payment (Self-employed) - Form PMRF, PPP5",
                    FormatDate(currentYear, currentMonth,
                               GetLastDayOfMonth(currentYear, currentMonth)),
                    info.philhealth_number)>>
       ELSE <<>>
  ELSE <<>>

\* variant: the forms of the self-employed are named for that status only
SSSFormsKnownStatuses(info) ==
  IF info.employment_status = "employed" THEN "Form R-1, R-1A, R-3"
  ELSE IF info.employment_status = "self-employed" THEN "Form RS-1, RS-5"
  ELSE "Form"

\* lines 1232-1234
SSSForms(info) ==
  IF info.employment_status = "employed" THEN "Form R-1, R-1A, R-3" ELSE "Form RS-1, RS-5"

\* variant: the SSS entry echoes the PhilHealth number
SSSEntriesPhilHealthNumber(info, currentYear, currentMonth) ==
  IF Truthy(info.sss_number)
  THEN LET nextMonth == NextMonth(currentMonth)
           dueYear == DueYear(currentYear, currentMonth)
           lastDay == GetLastDayOfMonth(dueYear, nextMonth)
           forms == SSSForms(info)
           label == IF info.employment_status = "employed"
                    THEN "Employed" ELSE "Self-employed"
       IN  <<Entry("SSS",
                   "SSS contribution payment (" \o label \o ") - " \o forms,
                   FormatDate(dueYear, nextMonth, lastDay),
                   info.philhealth_number)>>
  ELSE <<>>

\* variant: the SSS branch is entered only for the two known statuses
SSSEntriesStatusGated(info, currentYear, currentMonth) ==
  IF /\ Truthy(info.sss_number)
     /\ (info.employment_status = "employed" \/ info.employment_status = "self-employed")
  THEN LET nextMonth == NextMonth(currentMonth)
           dueYear == DueYear(currentYear, currentMonth)
           lastDay == GetLastDayOfMonth(dueYear, nextMonth)
           forms == SSSForms(info)
           label == IF info.employment_status = "employed"
                    THEN "Employed" ELSE "Self-employed"
       IN  <<Entry("SSS",
                   "SSS contribution payment (" \o label \o ") - " \o forms,
                   FormatDate(dueYear, nextMonth, lastDay),
                   info.sss_number)>>
  ELSE <<>>

\* lines 1225-1242
SSSEntries(info, currentYear, currentMonth) ==
  IF Truthy(info.sss_number)
  THEN LET nextMonth == NextMonth(currentMonth)
           dueYear == DueYear(currentYear, currentMonth)
           lastDay == GetLastDayOfMonth(dueYear, nextMonth)
           forms == SSSForms(info)
           label == IF info.employment_status = "employed"
                    THEN "Employed" ELSE "Self-employed"
       IN  <<Entry("SSS",
                   "SSS contribution payment (" \o label \o ") - " \o forms,
                   FormatDate(dueYear, nextMonth, lastDay),
                   info.sss_number)>>
  ELSE <<>>

\* variant: the Pag-IBIG branch is entered whatever the status
PagIbigEntriesAnyStatus(info, currentYear, currentMonth) ==
  IF Truthy(info.pagibig_number)
  THEN LET nextMonth == NextMonth(currentMonth)
           dueYear == DueYear(currentYear, currentMonth)
           forms == IF info.employment_status = "employed"
                    THEN "Form ER1, MDF, MRS" ELSE "Form MDF, POF"
           label == IF info.employment_status = "employed"
                    THEN "Employed" ELSE "Self-employed"
           primary ==
             Entry("Pag-IBIG",
                   "Pag-IBIG contribution payment (" \o label \o ") - " \o forms,
                   NumberToString(dueYear) \o <<"-">>
                     \o PadStart(NumberToString(nextMonth), 2, "0") \o <<"-", "1", "0">>,
                   info.pagibig_number)
           nextQuarter == GetFirstDayOfNextQuarter(currentYear, currentMonth)
           quarterly ==
             Entry("Pag-IBIG",
                   "Pag-IBIG contribution payment (Quarterly Option) - Form MDF, POF",
                   FormatDate(nextQuarter.year, nextQuarter.month, nextQuarter.day),
                   info.pagibig_number)
       IN  IF info.employment_status = "self-employed"
           THEN <<primary, quarterly>>
           ELSE <<primary>>
  ELSE <<>>

\* variant: the quarterly-option entry is added for both statuses
PagIbigEntriesQuarterlyForAll(info, currentYear, currentMonth) ==
  IF /\ Truthy(info.pagibig_number)
     /\ (info.employment_status = "employed" \/ info.employment_status = "self-employed")
  THEN LET nextMonth == NextMonth(currentMonth)
           dueYear == DueYear(currentYear, currentMonth)
           forms == IF info.employment_status = "employed"
                    THEN "Form ER1, MDF, MRS" ELSE "Form MDF, POF"
           label == IF info.employment_status = "employed"
                    THEN "Employed" ELSE "Self-employed"
           primary ==
             Entry("Pag-IBIG",
                   "Pag-IBIG contribution payment (" \o label \o ") - " \o forms,
                   NumberToString(dueYear) \o <<"-">>
                     \o PadStart(NumberToString(nextMonth), 2, "0") \o <<"-", "1", "0">>,
                   info.pagibig_number)
           nextQuarter == GetFirstDayOfNextQuarter(currentYear, currentMonth)
           quarterly ==
             Entry("Pag-IBIG",
                   "Pag-IBIG contribution payment (Quarterly Option) - Form MDF, POF",
                   FormatDate(nextQuarter.year, nextQuarter.month, nextQuarter.day),
                   info.pagibig_number)
       IN  <<primary, quarterly>>
  ELSE <<>>

\* lines 1244-1273
PagIbigEntries(info, currentYear, currentMonth) ==
  IF /\ Truthy(info.pagibig_number)
     /\ (info.employment_status = "employed" \/ info.employment_status = "self-employed")
  THEN LET nextMonth == NextMonth(currentMonth)
           dueYear == DueYear(currentYear, currentMonth)
           forms == IF info.employment_status = "employed"
                    THEN "Form ER1, MDF, MRS" ELSE "Form MDF, POF"
           label == IF info.employment_status = "employed"
                    THEN "Employed" ELSE "Self-employed"
           primary ==
             Entry("Pag-IBIG",
                   "Pag-IBIG contribution payment (" \o label \o ") - " \o forms,
                   NumberToString(dueYear) \o <<"-">>
                     \o PadStart(NumberToString(nextMonth), 2, "0") \o <<"-", "1", "0">>,
                   info.pagibig_number)
           nextQuarter == GetFirstDayOfNextQuarter(currentYear, currentMonth)
           quarterly ==
             Entry("Pag-IBIG",
                   "Pag-IBIG contribution payment (Quarterly Option) - Form MDF, POF",
                   FormatDate(nextQuarter.year, nextQuarter.month, nextQuarter.day),
                   info.pagibig_number)
       IN  IF info.employment_status = "self-employed"
           THEN <<primary, quarterly>>
           ELSE <<primary>>
  ELSE <<>>

\* variant: the SSS branch comes first
CandidatesSssFirst(info, t, zone) ==
  LET currentMonth == CurrentMonth(t, zone)
      currentYear == CurrentYear(t, zone)
  IN  SSSEntries(info, currentYear, currentMonth)
        \o PhilHealthEntries(info, currentYear, currentMonth)
        \o PagIbigEntries(info, currentYear, currentMonth)

\* the array dueDates after the three branches
Candidates(info, t, zone) ==
  LET currentMonth == CurrentMonth(t, zone)
      currentYear == CurrentYear(t, zone)
  IN  PhilHealthEntries(info, currentYear, currentMonth)
        \o SSSEntries(info, currentYear, currentMonth)
        \o PagIbigEntries(info, currentYear, currentMonth)

\* dueDateObj >= now, dueDateObj being new Date(dueDate.dueDate)
NotStale(entry, t) ==
  LET dueDateObj == DateParse(entry.dueDate)
  IN  ~dueDateObj.isNaN /\ dueDateObj.val >= t

\* dueDates.filter(...)
RECURSIVE FilterDueDates(_, _)
FilterDueDates(list, t) ==
  IF list = <<>> THEN <<>>
  ELSE (IF NotStale(Head(list), t) THEN <<Head(list)>> ELSE <<>>)
         \o FilterDueDates(Tail(list), t)

\* variant: the month index of now is used as the current month and the
\* array is returned as built, without the filter
ComputeDueDatesMonthIndexUnfiltered(info, t, zone) ==
  LET currentMonth == GetMonth(t, zone)
      currentYear == CurrentYear(t, zone)
  IN  PhilHealthEntries(info, currentYear, currentMonth)
        \o SSSEntries(info, currentYear, currentMonth)
        \o PagIbigEntries(info, currentYear, currentMonth)

\* lines 1178-1281: what the callback computes from a row and the clock
ComputeDueDates(info, t, zone) == FilterDueDates(Candidates(info, t, zone), t)

Ok(list) == [status |-> 200, dueDates |-> list, error |-> FALSE]
ServerError == [status |-> 500, dueDates |-> <<>>, error |-> TRUE]
NoResponse == [status |-> 0, dueDates |-> <<>>, error |-> FALSE]
\* an uncaught TypeError in the callback: no response is sent
Thrown == [status |-> 0, dueDates |-> <<>>, error |-> TRUE]

\* the argument err of the callback: null, or an error of the query
NoError == "null"
QueryError == "error"

\* variant: the check for an empty result is missing
NoResultsIgnored(results) == FALSE

\* results.length === 0
NoResults(results) == Len(results) = 0

\* results[0]: undefined when the array is empty
FirstRow(results) == IF Len(results) = 0 THEN NoRow ELSE results[1]

\* the callback raises a TypeError: a property of undefined is read, or
\* slice is called on a philhealth_number that is null
Raises(info) ==
  \/ info = NoRow
  \/ /\ Truthy(info.philhealth_number)
     /\ info.employment_status = "employed"
     /\ info.philhealth_number = NULL

\* variant: the error of the query is logged only and the result taken as empty
ResponseErrorAsEmpty(e, results, t, zone) ==
  IF e # NoError \/ NoResults(results) THEN Ok(<<>>)
  ELSE IF Raises(FirstRow(results)) THEN Thrown
  ELSE Ok(ComputeDueDates(FirstRow(results), t, zone))

\* lines 1170-1281: the response of the callback to (err, results) at time t
Response(e, results, t, zone) ==
  IF e # NoError THEN ServerError
  ELSE IF NoResults(results) THEN Ok(<<>>)
  ELSE IF Raises(FirstRow(results)) THEN Thrown
  ELSE Ok(ComputeDueDates(FirstRow(results), t, zone))

\* the locals of a handler before its request has arrived
IdleRequest ==
  [pc |-> "idle", userId |-> 0, userInfo |-> NoRow, asOf |-> NoDate,
   now |-> 0, res |-> NoResponse, err |-> NoError]

Slots == {1, 2}
NoRequests == [r \in Slots |-> IdleRequest]

(***************************************************************************)
(* The other tables as the server creates them at start-up: empty.         *)
(***************************************************************************)
NoOp == [kind |-> "none"]
NoDocuments == [rows |-> {}, autoIncrement |-> 1]
NoFiles == [cloudinary |-> {}, uploads |-> {}]

InitTables ==
  /\ users = <<>>
  /\ clock = 0
  /\ issued = 0
  /\ dependents = <<>>
  /\ documents = NoDocuments
  /\ storage = NoFiles
  /\ messages = <<>>
  /\ op = NoOp

(***************************************************************************)
(* The request: app.get('/api/due-dates/:userId').                         *)
(***************************************************************************)
Init ==
  /\ tz \in TimeZones
  /\ personal_info \in [UserIds -> Rows \cup {NoRow}]
  /\ pc = "idle"
  /\ userId = 0
  /\ userInfo = NoRow
  /\ asOf = NoDate
  /\ now = 0
  /\ dueDates = <<>>
  /\ res = NoResponse
  /\ err = NoError
  /\ cal = NoCall
  /\ reqs = NoRequests
  /\ InitTables

\* lines 1165-1169: the request arrives and the profile query is issued
DueDatesRequest(u) ==
  /\ pc \in {"idle", "done"}
  /\ pc' = "query"
  /\ userId' = u
  /\ userInfo' = NoRow
  /\ asOf' = NoDate
  /\ now' = 0
  /\ dueDates' = <<>>
  /\ res' = NoResponse
  /\ err' = NoError
  /\ UNCHANGED <<tz, personal_info, cal, reqs, appVars>>

\* lines 1170-1172: the query fails
DueDatesQueryError ==
  /\ pc = "query"
  /\ pc' = "done"
  /\ err' = QueryError
  /\ res' = Response(QueryError, <<>>, 0, tz)
  /\ UNCHANGED <<tz, personal_info, userId, userInfo, asOf, now, dueDates, cal, reqs, appVars>>

\* SELECT * FROM personal_info WHERE user_id = ?
SelectPersonalInfo(u) ==
  IF personal_info[u] = NoRow THEN <<>> ELSE <<personal_info[u]>>

\* lines 1174-1281: the query succeeds
DueDatesCallback ==
  /\ pc = "query"
  /\ pc' = "done"
  /\ err' = NoError
  /\ LET results == SelectPersonalInfo(userId)
     IN  IF NoResults(results)
         THEN /\ res' = Response(NoError, results, 0, tz)
              /\ UNCHANGED <<userInfo, asOf, now, dueDates>>
         ELSE \E a \in AsOfs :
                /\ userInfo' = FirstRow(results)
                /\ asOf' = a
                /\ now' = TimeValue(a, tz)
                /\ dueDates' = IF Raises(FirstRow(results)) THEN <<>>
                               ELSE Candidates(FirstRow(results), TimeValue(a, tz), tz)
                /\ res' = Response(NoError, results, TimeValue(a, tz), tz)
  /\ UNCHANGED <<tz, personal_info, userId, cal, reqs, appVars>>

Next ==
  \/ \E u \in UserIds : DueDatesRequest(u)
  \/ DueDatesQueryError
  \/ DueDatesCallback

Spec == Init /\ [][Next]_vars

(***************************************************************************)
(* The calendar helper on its own: getLastDayOfMonth applied to every      *)
(* month of a range of years.                                              *)
(***************************************************************************)
InitCalendar ==
  /\ tz = 0
  /\ personal_info = [u \in UserIds |-> NoRow]
  /\ pc = "idle"
  /\ userId = 0
  /\ userInfo = NoRow
  /\ asOf = NoDate
  /\ now = 0
  /\ dueDates = <<>>
  /\ res = NoResponse
  /\ err = NoError
  /\ cal = NoCall
  /\ reqs = NoRequests
  /\ InitTables

CallGetLastDayOfMonth(year, month) ==
  /\ cal.pc = "idle"
  /\ cal' = [pc |-> "done", year |-> year, month |-> month,
             result |-> GetLastDayOfMonth(year, month)]
  /\ UNCHANGED <<tz, personal_info, dueVars, reqs, appVars>>

NextCalendar == \E year \in CalYears, month \in Months : CallGetLastDayOfMonth(year, month)

SpecCalendar == InitCalendar /\ [][NextCalendar]_vars

(***************************************************************************)
(* Several requests in flight.  Node runs each callback to its end before  *)
(* the next one starts, so the interleavings are those of the arrivals and *)
(* of the callbacks.  dueDates holds the array of the latest callback.     *)
(***************************************************************************)
ConcUserIds == {1, 2, 3}

\* two users with a row, one without
ConcTable ==
  [u \in ConcUserIds |->
     CASE u = 1 -> [employment_status |-> "employed",
                    philhealth_number |-> <<"8", "1">>,
                    sss_number |-> <<"3", "4">>,
                    pagibig_number |-> <<"1", "2">>]
       [] u = 2 -> [employment_status |-> "self-employed",
                    philhealth_number |-> <<"3", "6">>,
                    sss_number |-> <<"5", "6">>,
                    pagibig_number |-> <<"7", "8">>]
       [] OTHER -> NoRow]

\* the last day of January and of December, at noon and in the evening
ConcAsOfs ==
  {a \in AsOfs : a.year = MaxYear /\ a.month \in {1, 12} /\ a.day = 31
                   /\ a.minute \in {720, 1200}}

\* variant: the array is declared once for the module and kept between callbacks
KeepArray(old) == old

\* const dueDates = []
FreshArray(old) == <<>>

\* variant: userId is a variable of the module, written by every arriving request
SharedUserId(requests, r) ==
  LET inFlight == {x \in Slots : requests[x].pc = "query"}
  IN  requests[CHOOSE x \in inFlight : \A y \in inFlight : y <= x].userId

\* the userId of the closure of request r, bound to the query
ClosureUserId(requests, r) == requests[r].userId

InitConcurrent ==
  /\ tz \in TimeZones
  /\ personal_info = ConcTable
  /\ pc = "idle"
  /\ userId = 0
  /\ userInfo = NoRow
  /\ asOf = NoDate
  /\ now = 0
  /\ dueDates = <<>>
  /\ res = NoResponse
  /\ err = NoError
  /\ cal = NoCall
  /\ reqs = NoRequests
  /\ InitTables

\* lines 1165-1169: request r arrives and its profile query is issued
ConcRequest(r, u) ==
  /\ reqs[r].pc \in {"idle", "done"}
  /\ reqs' = [reqs EXCEPT ![r] = [IdleRequest EXCEPT !.pc = "query", !.userId = u]]
  /\ UNCHANGED <<tz, personal_info, dueVars, cal, appVars>>

\* lines 1170-1172: the query of request r fails
ConcQueryError(r) ==
  /\ reqs[r].pc = "query"
  /\ reqs' = [reqs EXCEPT ![r].pc = "done",
                          ![r].err = QueryError,
                          ![r].res = Response(QueryError, <<>>, 0, tz)]
  /\ UNCHANGED <<tz, personal_info, dueVars, cal, appVars>>

\* lines 1174-1281: the query of request r succeeds
ConcCallback(r) ==
  /\ reqs[r].pc = "query"
  /\ LET results == SelectPersonalInfo(ClosureUserId(reqs, r))
     IN  IF NoResults(results)
         THEN /\ reqs' = [reqs EXCEPT ![r].pc = "done",
                                      ![r].res = Response(NoError, results, 0, tz)]
              /\ UNCHANGED dueDates
         ELSE \E a \in ConcAsOfs :
                LET info == FirstRow(results)
                    t == TimeValue(a, tz)
                    array == FreshArray(dueDates)
                               \o (IF Raises(info) THEN <<>> ELSE Candidates(info, t, tz))
                IN  /\ dueDates' = array
                    /\ reqs' = [reqs EXCEPT
                                  ![r].pc = "done",
                                  ![r].userInfo = info,
                                  ![r].asOf = a,
                                  ![r].now = t,
                                  ![r].res = IF Raises(info) THEN Thrown
                                             ELSE Ok(FilterDueDates(array, t))]
  /\ UNCHANGED <<tz, personal_info, pc, userId, userInfo, asOf, now, res, err, cal, appVars>>

NextConcurrent ==
  \/ \E r \in Slots, u \in ConcUserIds : ConcRequest(r, u)
  \/ \E r \in Slots : ConcQueryError(r)
  \/ \E r \in Slots : ConcCallback(r)

SpecConcurrent == InitConcurrent /\ [][NextConcurrent]_vars

(***************************************************************************)
(* Messages: POST /api/messages, GET /api/messages/unread/:userId and      *)
(* POST /api/messages/mark-read.  Each handler issues one statement on the *)
(* table messages and answers in its callback.                             *)
(***************************************************************************)
\* most rows of the table messages
MaxMessages == 3

\* the ids of the users who write to each other
MessageUsers == {1, 2}
\* a parameter of the body: an id, or 0 for one that is missing
BodyIds == {0} \cup MessageUsers

\* INSERT INTO messages (sender_id, receiver_id, message): is_read takes DEFAULT 0
NewMessage(sender_id, receiver_id) ==
  [sender_id |-> sender_id, receiver_id |-> receiver_id, message |-> "text", is_read |-> 0]

\* variant: WHERE receiver_id = ? AND is_read = 0, whoever the sender
MatchesAnySender(m, receiver_id, sender_id) ==
  m.receiver_id = receiver_id /\ m.is_read = 0

\* WHERE receiver_id = ? AND sender_id = ? AND is_read = 0
Matches(m, receiver_id, sender_id) ==
  m.receiver_id = receiver_id /\ m.sender_id = sender_id /\ m.is_read = 0

\* UPDATE messages SET is_read = 1 WHERE ...
MarkReadUpdate(table, receiver_id, sender_id) ==
  [i \in 1..Len(table) |->
     IF Matches(table[i], receiver_id, sender_id)
     THEN [table[i] EXCEPT !.is_read = 1] ELSE table[i]]

\* result.affectedRows of that UPDATE
AffectedRows(table, receiver_id, sender_id) ==
  Cardinality({i \in 1..Len(table) : Matches(table[i], receiver_id, sender_id)})

InitMessages ==
  /\ tz = 0
  /\ personal_info = [u \in UserIds |-> NoRow]
  /\ pc = "idle"
  /\ userId = 0
  /\ userInfo = NoRow
  /\ asOf = NoDate
  /\ now = 0
  /\ dueDates = <<>>
  /\ res = NoResponse
  /\ err = NoError
  /\ cal = NoCall
  /\ reqs = NoRequests
  /\ InitTables

\* lines 866-888, the INSERT succeeds
PostMessage(sender_id, receiver_id) ==
  /\ Len(messages) < MaxMessages
  /\ messages' = Append(messages, NewMessage(sender_id, receiver_id))
  /\ op' = [kind |-> "post", status |-> 200, id |-> Len(messages) + 1]
  /\ UNCHANGED <<tz, personal_info, dueVars, cal, reqs,
                 users, clock, issued, dependents, documents, storage>>

\* lines 871-874, the INSERT fails
PostMessageError(sender_id, receiver_id) ==
  /\ op' = [kind |-> "post", status |-> 500, id |-> 0]
  /\ UNCHANGED <<tz, personal_info, dueVars, cal, reqs,
                 users, clock, issued, dependents, documents, storage, messages>>

\* lines 1581-1595
GetUnread(u) ==
  /\ op' = [kind |-> "unread", status |-> 200,
            rows |-> SelectSeq(messages, LAMBDA m : m.receiver_id = u /\ m.is_read = 0)]
  /\ UNCHANGED <<tz, personal_info, dueVars, cal, reqs,
                 users, clock, issued, dependents, documents, storage, messages>>

\* lines 1597-1615, the UPDATE succeeds or a parameter is missing
MarkRead(receiver_id, sender_id) ==
  /\ IF receiver_id = 0 \/ sender_id = 0
     THEN /\ op' = [kind |-> "mark-read", receiver_id |-> receiver_id,
                    sender_id |-> sender_id, status |-> 400, affectedRows |-> 0]
          /\ UNCHANGED messages
     ELSE /\ messages' = MarkReadUpdate(messages, receiver_id, sender_id)
          /\ op' = [kind |-> "mark-read", receiver_id |-> receiver_id,
                    sender_id |-> sender_id, status |-> 200,
                    affectedRows |-> AffectedRows(messages, receiver_id, sender_id)]
  /\ UNCHANGED <<tz, personal_info, dueVars, cal, reqs,
                 users, clock, issued, dependents, documents, storage>>

\* lines 1609-1612, the UPDATE fails
MarkReadError(receiver_id, sender_id) ==
  /\ receiver_id # 0 /\ sender_id # 0
  /\ op' = [kind |-> "mark-read", receiver_id |-> receiver_id,
            sender_id |-> sender_id, status |-> 500, affectedRows |-> 0]
  /\ UNCHANGED <<tz, personal_info, dueVars, cal, reqs,
                 users, clock, issued, dependents, documents, storage, messages>>

NextMessages ==
  \/ \E s \in MessageUsers, r \in MessageUsers : PostMessage(s, r)
  \/ \E s \in MessageUsers, r \in MessageUsers : PostMessageError(s, r)
  \/ \E u \in MessageUsers : GetUnread(u)
  \/ \E r \in BodyIds, s \in BodyIds : MarkRead(r, s)
  \/ \E r \in BodyIds, s \in BodyIds : MarkReadError(r, s)

SpecMessages == InitMessages /\ [][NextMessages]_vars

(***************************************************************************)
(* Password reset: POST /api/forgot-password and POST /api/reset-password. *)
(* The queries go through a connection pool, so the SELECT and the UPDATE  *)
(* of one reset are two steps between which other requests may run.        *)
(***************************************************************************)
\* most reset tokens drawn
MaxTokens == 2
\* last hour of the database clock
MaxClock == 2

ResetUsers == {1, 2}
\* reset_token IS NULL, and a body without token
NoToken == 0
Tokens == 1..MaxTokens
\* the passwords of a body; "" is a missing one
Passwords == {"", "p", "q"}

\* bcrypt.hash(newPassword, 10)
Hash(password) == <<"bcrypt", password>>

IdleReset ==
  [pc |-> "idle", token |-> NoToken, newPassword |-> "", user |-> 0,
   res |-> [status |-> 0, body |-> ""]]

\* WHERE reset_token = ? AND reset_expires > NOW()
TokenRows(token) ==
  {u \in DOMAIN users : users[u].reset_token = token /\ users[u].reset_expires > clock}

InitReset ==
  /\ tz = 0
  /\ personal_info = [u \in UserIds |-> NoRow]
  /\ pc = "idle"
  /\ userId = 0
  /\ userInfo = NoRow
  /\ asOf = NoDate
  /\ now = 0
  /\ dueDates = <<>>
  /\ res = NoResponse
  /\ err = NoError
  /\ cal = NoCall
  /\ reqs = [r \in Slots |-> IdleReset]
  /\ users = [u \in ResetUsers |->
                [password |-> Hash("old"), plain_password |-> "old",
                 reset_token |-> NoToken, reset_expires |-> 0]]
  /\ clock = 0
  /\ issued = 0
  /\ dependents = <<>>
  /\ documents = NoDocuments
  /\ storage = NoFiles
  /\ messages = <<>>
  /\ op = NoOp

\* lines 395-419: a fresh token, valid for one hour, is stored for the user
ForgotPassword(u) ==
  /\ issued < MaxTokens
  /\ issued' = issued + 1
  /\ users' = [users EXCEPT ![u].reset_token = issued + 1,
                            ![u].reset_expires = clock + 1]
  /\ UNCHANGED <<tz, personal_info, dueVars, cal, reqs,
                 clock, dependents, documents, storage, messages, op>>

\* an hour passes
Tick ==
  /\ clock < MaxClock
  /\ clock' = clock + 1
  /\ UNCHANGED <<tz, personal_info, dueVars, cal, reqs,
                 users, issued, dependents, documents, storage, messages, op>>

\* lines 421-430: the body is checked and the SELECT issued
ResetRequest(r, token, newPassword, confirmPassword) ==
  /\ reqs[r].pc \in {"idle", "done"}
  /\ reqs' = [reqs EXCEPT ![r] =
       IF token = NoToken \/ newPassword = "" \/ confirmPassword = ""
       THEN [IdleReset EXCEPT !.pc = "done", !.token = token,
               !.res = [status |-> 400,
                        body |-> "Token, new password, and confirm password are required"]]
       ELSE IF newPassword # confirmPassword
       THEN [IdleReset EXCEPT !.pc = "done", !.token = token,
               !.res = [status |-> 400, body |-> "Passwords do not match"]]
       ELSE [IdleReset EXCEPT !.pc = "select", !.token = token,
               !.newPassword = newPassword]]
  /\ UNCHANGED <<tz, personal_info, dueVars, cal, appVars>>

\* lines 432-442: the SELECT runs and its callback takes results[0]
ResetSelect(r) ==
  /\ reqs[r].pc = "select"
  /\ IF TokenRows(reqs[r].token) = {}
     THEN reqs' = [reqs EXCEPT ![r].pc = "done",
                     ![r].res = [status |-> 400, body |-> "Invalid or expired token"]]
     ELSE \E u \in TokenRows(reqs[r].token) :
            reqs' = [reqs EXCEPT ![r].pc = "update", ![r].user = u]
  /\ UNCHANGED <<tz, personal_info, dueVars, cal, appVars>>

\* lines 436-438: the SELECT fails
ResetSelectError(r) ==
  /\ reqs[r].pc = "select"
  /\ reqs' = [reqs EXCEPT ![r].pc = "done",
                ![r].res = [status |-> 500, body |-> "error"]]
  /\ UNCHANGED <<tz, personal_info, dueVars, cal, appVars>>

\* lines 444-453: the password is hashed and the UPDATE ... WHERE id = ? runs
ResetUpdate(r) ==
  /\ reqs[r].pc = "update"
  /\ users' = [users EXCEPT ![reqs[r].user] =
                 [password |-> Hash(reqs[r].newPassword),
                  plain_password |-> reqs[r].newPassword,
                  reset_token |-> NoToken, reset_expires |-> 0]]
  /\ reqs' = [reqs EXCEPT ![r].pc = "done",
                ![r].res = [status |-> 200, body |-> "Password reset successfully"]]
  /\ UNCHANGED <<tz, personal_info, dueVars, cal,
                 clock, issued, dependents, documents, storage, messages, op>>

\* lines 449-451: the UPDATE fails
ResetUpdateError(r) ==
  /\ reqs[r].pc = "update"
  /\ reqs' = [reqs EXCEPT ![r].pc = "done",
                ![r].res = [status |-> 500, body |-> "error"]]
  /\ UNCHANGED <<tz, personal_info, dueVars, cal, appVars>>

NextReset ==
  \/ \E u \in ResetUsers : ForgotPassword(u)
  \/ Tick
  \/ \E r \in Slots, token \in {NoToken} \cup Tokens, p \in Passwords, q \in Passwords :
       ResetRequest(r, token, p, q)
  \/ \E r \in Slots : ResetSelect(r)
  \/ \E r \in Slots : ResetSelectError(r)
  \/ \E r \in Slots : ResetUpdate(r)
  \/ \E r \in Slots : ResetUpdateError(r)

SpecReset == InitReset /\ [][NextReset]_vars

(***************************************************************************)
(* Saving a profile: POST /api/personal-info.  The upsert, the DELETE of   *)
(* the old dependents, the INSERT of the new ones and the two SELECTs of   *)
(* the answer are separate statements, each issued from the callback of    *)
(* the one before, with no transaction around them.                        *)
(***************************************************************************)
\* most dependents in one body
MaxDependents == 1

DepNames == {"Ana", "Ben"}
\* info.dependents
DependentLists ==
  UNION {[1..n -> DepNames] : n \in 0..MaxDependents}

\* the bodies posted: the profile fields that the model keeps
BodyInfos ==
  {[employment_status |-> "", philhealth_number |-> <<>>,
    sss_number |-> <<>>, pagibig_number |-> <<>>],
   [employment_status |-> "self-employed", philhealth_number |-> <<"8", "1">>,
    sss_number |-> <<>>, pagibig_number |-> <<"1", "2">>]}

\* value || null
OrNull(v) == IF v = <<>> THEN NULL ELSE v

\* lines 553-569
CleanData(info) ==
  [employment_status |->
     IF info.employment_status = "" THEN "employed" ELSE info.employment_status,
   philhealth_number |-> OrNull(info.philhealth_number),
   sss_number |-> OrNull(info.sss_number),
   pagibig_number |-> OrNull(info.pagibig_number)]

\* lines 643-648
DepValues(u, list) == [i \in 1..Len(list) |-> [user_id |-> u, dep_name |-> list[i]]]

\* DELETE FROM dependents WHERE user_id = ?
DeleteDependents(table, u) == SelectSeq(table, LAMBDA d : d.user_id # u)

\* SELECT ... FROM dependents WHERE user_id = ?
SelectDependents(table, u) == SelectSeq(table, LAMBDA d : d.user_id = u)

IdleSave ==
  [pc |-> "idle", userId |-> 0, info |-> NoRow, dependents |-> <<>>,
   res |-> [status |-> 0, saved |-> NoRow, dependents |-> <<>>]]

InitPersonalInfo ==
  /\ tz = 0
  /\ personal_info = [u \in UserIds |-> NoRow]
  /\ pc = "idle"
  /\ userId = 0
  /\ userInfo = NoRow
  /\ asOf = NoDate
  /\ now = 0
  /\ dueDates = <<>>
  /\ res = NoResponse
  /\ err = NoError
  /\ cal = NoCall
  /\ reqs = [r \in Slots |-> IdleSave]
  /\ InitTables

\* lines 541-619: the body is read and the upsert issued
SaveRequest(r, u, info, list) ==
  /\ reqs[r].pc \in {"idle", "done"}
  /\ reqs' = [reqs EXCEPT ![r] =
       IF u = 0
       THEN [IdleSave EXCEPT !.pc = "done", !.res.status = 400]
       ELSE [IdleSave EXCEPT !.pc = "upsert", !.userId = u,
               !.info = CleanData(info), !.dependents = list]]
  /\ UNCHANGED <<tz, personal_info, dueVars, cal, appVars>>

\* lines 576-593, 619: INSERT ... ON DUPLICATE KEY UPDATE
SaveUpsert(r) ==
  /\ reqs[r].pc = "upsert"
  /\ personal_info' = [personal_info EXCEPT ![reqs[r].userId] = reqs[r].info]
  /\ reqs' = [reqs EXCEPT ![r].pc = "delete"]
  /\ UNCHANGED <<tz, dueVars, cal, appVars>>

\* lines 631-645: the old dependents are deleted
SaveDelete(r) ==
  /\ reqs[r].pc = "delete"
  /\ dependents' = DeleteDependents(dependents, reqs[r].userId)
  /\ reqs' = [reqs EXCEPT ![r].pc = IF Len(reqs[r].dependents) = 0
                                    THEN "selectOnly" ELSE "insert"]
  /\ UNCHANGED <<tz, personal_info, dueVars, cal,
                 users, clock, issued, documents, storage, messages, op>>

\* lines 637-644: no dependents posted, the saved row is read back and sent
SaveSelectOnly(r) ==
  /\ reqs[r].pc = "selectOnly"
  /\ reqs' = [reqs EXCEPT ![r].pc = "done",
                ![r].res = [status |-> 200, saved |-> personal_info[reqs[r].userId],
                            dependents |-> <<>>]]
  /\ UNCHANGED <<tz, personal_info, dueVars, cal, appVars>>

\* lines 653-657: INSERT INTO dependents ... VALUES ?
SaveInsert(r) ==
  /\ reqs[r].pc = "insert"
  /\ dependents' = dependents \o DepValues(reqs[r].userId, reqs[r].dependents)
  /\ reqs' = [reqs EXCEPT ![r].pc = "select"]
  /\ UNCHANGED <<tz, personal_info, dueVars, cal,
                 users, clock, issued, documents, storage, messages, op>>

\* lines 660-662: the saved row is read back
SaveSelect(r) ==
  /\ reqs[r].pc = "select"
  /\ reqs' = [reqs EXCEPT ![r].pc = "selectDependents",
                          ![r].res.saved = personal_info[reqs[r].userId]]
  /\ UNCHANGED <<tz, personal_info, dueVars, cal, appVars>>

\* lines 663-671: the dependents are read back and the answer sent
SaveSelectDependents(r) ==
  /\ reqs[r].pc = "selectDependents"
  /\ reqs' = [reqs EXCEPT ![r].pc = "done",
                ![r].res.status = 200,
                ![r].res.dependents = SelectDependents(dependents, reqs[r].userId)]
  /\ UNCHANGED <<tz, personal_info, dueVars, cal, appVars>>

\* lines 620-627, 632-635, 639, 657, 661, 667: the statement in hand fails
SaveQueryError(r) ==
  /\ reqs[r].pc \in {"upsert", "delete", "selectOnly", "insert", "select", "selectDependents"}
  /\ reqs' = [reqs EXCEPT ![r].pc = "done", ![r].res.status = 500]
  /\ UNCHANGED <<tz, personal_info, dueVars, cal, appVars>>

NextPersonalInfo ==
  \/ \E r \in Slots, u \in {0} \cup UserIds, info \in BodyInfos, list \in DependentLists :
       SaveRequest(r, u, info, list)
  \/ \E r \in Slots : SaveUpsert(r)
  \/ \E r \in Slots : SaveDelete(r)
  \/ \E r \in Slots : SaveSelectOnly(r)
  \/ \E r \in Slots : SaveInsert(r)
  \/ \E r \in Slots : SaveSelect(r)
  \/ \E r \in Slots : SaveSelectDependents(r)
  \/ \E r \in Slots : SaveQueryError(r)

SpecPersonalInfo == InitPersonalInfo /\ [][NextPersonalInfo]_vars

(***************************************************************************)
(* Documents: POST /api/upload behind the multer middleware, GET           *)
(* /api/download/:documentId and DELETE /api/documents/:documentId, one    *)
(* request at a time.  The table is the one after the migration that adds  *)
(* the column cloudinary_public_id; it holds rows of the time when files   *)
(* were kept in the directory uploads.  A file_path is a sequence of       *)
(* segments, the scheme first.  The columns user_id, form_id, quarter and  *)
(* year are written by the INSERT and read by no handler modelled here.    *)
(***************************************************************************)
\* last id that the table documents hands out
MaxDocuments == 4
\* most files in one upload
MaxFiles == 2

\* file.originalname and file.mimetype of the files posted
PostedFiles ==
  {[originalname |-> "x.pdf", mimetype |-> "application/pdf"],
   [originalname |-> "y.jpg", mimetype |-> "image/jpg"],
   [originalname |-> "z.svg", mimetype |-> "image/svg+xml"]}

FileLists == UNION {[1..n -> PostedFiles] : n \in 0..MaxFiles}

\* the rows of bir_forms
FormNames == {"1701"}

\* the URLs that a row written by an earlier version may hold
LegacyUrls ==
  {<<"http://", "host", "/raw/", "c.pdf">>,
   <<"https://", "host", "/upload/", "v1", "/upload/", "c.pdf">>}

\* a row of the time of the directory uploads, and a row holding a URL
LegacyRows(url) ==
  {[id |-> 1, file_name |-> "a.pdf", file_path |-> <<"a.pdf">>,
    cloudinary_public_id |-> NULL],
   [id |-> 2, file_name |-> "c.pdf", file_path |-> url,
    cloudinary_public_id |-> <<"c">>]}

\* the files behind those rows; the local one may be gone
LegacyFiles == {[cloudinary |-> {<<"c">>}, uploads |-> u] : u \in {{}, {<<"a.pdf">>}}}

DocumentIds == 1..MaxDocuments
InlineValues == {"true", "false", ""}

\* the allowedMimes of the upload filter
allowedMimes ==
  {"image/jpeg", "image/jpg", "image/png", "image/gif", "application/pdf",
   "application/msword",
   "application/vnd.openxmlformats-officedocument.wordprocessingml.document",
   "application/vnd.ms-excel",
   "application/vnd.openxmlformats-officedocument.spreadsheetml.sheet",
   "text/csv", "text/plain"}

InvalidFileType ==
  "Invalid file type. Only JPG, PNG, GIF, PDF, DOC, DOCX, XLS, XLSX, CSV, and TXT files are allowed."

\* variant: the filter lets every file through
fileFilterAny(file) == TRUE

\* allowedMimes.includes(file.mimetype)
fileFilter(file) == file.mimetype \in allowedMimes

\* file.path, the secure_url of the stored asset
CloudinaryUrl(file) == <<"https://", "res.cloudinary.com", "/upload/", file.originalname>>

\* file.filename, the public_id of the stored asset
PublicId(file) == <<"viron-bookkeeping", file.originalname>>

\* variant: the answer goes out with the first callback
RespondsAtFirst(processed, n) == processed = 1

\* processed === req.files.length
Responds(processed, n) == processed = n

\* variant: only https:// counts as a Cloudinary URL
IsRemoteHttpsOnly(file_path) == Len(file_path) > 0 /\ file_path[1] = "https://"

\* cloudinaryUrl.startsWith('http://') || cloudinaryUrl.startsWith('https://')
IsRemote(file_path) == Len(file_path) > 0 /\ file_path[1] \in {"http://", "https://"}

\* cloudinaryUrl.replace('/upload/', '/upload/fl_attachment/'): the first match
RECURSIVE ReplaceUpload(_)
ReplaceUpload(url) ==
  IF url = <<>> THEN <<>>
  ELSE IF Head(url) = "/upload/" THEN <<"/upload/fl_attachment/">> \o Tail(url)
  ELSE <<Head(url)>> \o ReplaceUpload(Tail(url))

\* variant: a failed cloudinary.uploader.destroy ends the request
ContinuesOnSuccessOnly(error) == ~error

\* "Continue with database deletion even if Cloudinary deletion fails"
Continues(error) == TRUE

\* SELECT ... FROM documents WHERE id = ?
DocumentRows(id) == {d \in documents.rows : d.id = id}

InitDocuments ==
  /\ tz = 0
  /\ personal_info = [u \in UserIds |-> NoRow]
  /\ pc = "idle"
  /\ userId = 0
  /\ userInfo = NoRow
  /\ asOf = NoDate
  /\ now = 0
  /\ dueDates = <<>>
  /\ res = NoResponse
  /\ err = NoError
  /\ cal = NoCall
  /\ reqs = NoRequests
  /\ users = <<>>
  /\ clock = 0
  /\ issued = 0
  /\ dependents = <<>>
  /\ \E url \in LegacyUrls : documents = [rows |-> LegacyRows(url), autoIncrement |-> 3]
  /\ storage \in LegacyFiles
  /\ messages = <<>>
  /\ op = NoOp

Idle == IF op.kind = "none" THEN TRUE ELSE op.pc = "done"

NoAnswer == [status |-> 0]

\* lines 46-73 of the upload configuration and 989-999 of the server: the
\* filter, the storing of the files, the checks of the body
UploadRequest(loggedIn, fieldsPresent, form_name, files) ==
  /\ Idle
  /\ documents.autoIncrement + Len(files) - 1 <= MaxDocuments
  /\ LET request ==
           [kind |-> "upload", pc |-> "form", loggedIn |-> loggedIn,
            fieldsPresent |-> fieldsPresent, form_name |-> form_name, files |-> files,
            formError |-> FALSE, insertIds |-> [i \in 1..Len(files) |-> 0],
            uploadedFiles |-> <<>>, processed |-> 0, responses |-> 0,
            res |-> NoAnswer, before |-> documents]
     IN  IF \E i \in 1..Len(files) : ~fileFilter(files[i])
         THEN /\ op' = [request EXCEPT !.pc = "done", !.responses = 1,
                          !.res = [status |-> 500, error |-> InvalidFileType]]
              /\ UNCHANGED storage
         ELSE /\ storage' = [storage EXCEPT !.cloudinary =
                               @ \cup {PublicId(files[i]) : i \in 1..Len(files)}]
              /\ op' = IF ~fieldsPresent
                       THEN [request EXCEPT !.pc = "done", !.responses = 1,
                               !.res = [status |-> 400, error |-> "Missing required fields"]]
                       ELSE IF Len(files) = 0
                       THEN [request EXCEPT !.pc = "done", !.responses = 1,
                               !.res = [status |-> 400, error |-> "No files uploaded"]]
                       ELSE request
  /\ UNCHANGED <<tz, personal_info, dueVars, cal, reqs,
                 users, clock, issued, dependents, documents, messages>>

\* lines 1002-1012: the form is looked up and the INSERTs are issued
UploadForm ==
  /\ op.kind = "upload" /\ op.pc = "form"
  /\ op' = IF op.form_name \notin FormNames
           THEN [op EXCEPT !.pc = "done", !.responses = 1,
                   !.res = [status |-> 400, error |-> "Invalid form name"]]
           ELSE [op EXCEPT !.pc = "insert"]
  /\ UNCHANGED <<tz, personal_info, dueVars, cal, reqs,
                 users, clock, issued, dependents, documents, storage, messages>>

\* lines 1005-1007: the lookup of the form fails
UploadFormError ==
  /\ op.kind = "upload" /\ op.pc = "form"
  /\ op' = [op EXCEPT !.pc = "done", !.responses = 1, !.formError = TRUE,
              !.res = [status |-> 400, error |-> "Invalid form name"]]
  /\ UNCHANGED <<tz, personal_info, dueVars, cal, reqs,
                 users, clock, issued, dependents, documents, storage, messages>>

\* lines 1019-1049: the INSERT of file i completes, with or without error
UploadInsert(i, inserted) ==
  /\ op.kind = "upload" /\ op.pc = "insert"
  /\ i \in 1..Len(op.files) /\ op.insertIds[i] = 0
  /\ LET id == documents.autoIncrement
         uploadedFiles ==
           IF inserted
           THEN Append(op.uploadedFiles,
                       [id |-> id, fileName |-> op.files[i].originalname,
                        fileURL |-> CloudinaryUrl(op.files[i])])
           ELSE op.uploadedFiles
         processed == op.processed + 1
         insertIds == [op.insertIds EXCEPT ![i] = IF inserted THEN id ELSE -1]
     IN  /\ documents' =
              IF inserted
              THEN [rows |-> documents.rows \cup
                               {[id |-> id, file_name |-> op.files[i].originalname,
                                 file_path |-> CloudinaryUrl(op.files[i]),
                                 cloudinary_public_id |-> PublicId(op.files[i])]},
                    autoIncrement |-> id + 1]
              ELSE documents
         /\ op' = [op EXCEPT
                     !.insertIds = insertIds,
                     !.uploadedFiles = uploadedFiles,
                     !.processed = processed,
                     !.pc = IF \A j \in 1..Len(op.files) : insertIds[j] # 0
                            THEN "done" ELSE "insert",
                     !.responses = IF Responds(processed, Len(op.files)) THEN @ + 1 ELSE @,
                     !.res = IF Responds(processed, Len(op.files))
                             THEN [status |-> 200, files |-> uploadedFiles] ELSE @]
  /\ UNCHANGED <<tz, personal_info, dueVars, cal, reqs,
                 users, clock, issued, dependents, storage, messages>>

\* lines 1428-1436: the row of the document is asked for
DownloadRequest(loggedIn, documentId, inline) ==
  /\ Idle
  /\ op' = [kind |-> "download", pc |-> "select", loggedIn |-> loggedIn,
            documentId |-> documentId, inline |-> inline, res |-> NoAnswer]
  /\ UNCHANGED <<tz, personal_info, dueVars, cal, reqs,
                 users, clock, issued, dependents, documents, storage, messages>>

\* lines 1442-1506: redirect to the URL, or the file of the directory uploads
DownloadSelect ==
  /\ op.kind = "download" /\ op.pc = "select"
  /\ op' = [op EXCEPT !.pc = "done", !.res =
       IF DocumentRows(op.documentId) = {}
       THEN [status |-> 404, error |-> "Document not found in database"]
       ELSE LET row == CHOOSE d \in DocumentRows(op.documentId) : TRUE
            IN  IF IsRemote(row.file_path)
                THEN [status |-> 302,
                      location |-> IF op.inline = "true" THEN row.file_path
                                   ELSE ReplaceUpload(row.file_path)]
                ELSE IF row.file_path \notin storage.uploads
                THEN [status |-> 404, error |-> "File not found on server"]
                ELSE [status |-> 200, file |-> row.file_path,
                      disposition |-> IF op.inline = "true" THEN "inline" ELSE "attachment"]]
  /\ UNCHANGED <<tz, personal_info, dueVars, cal, reqs,
                 users, clock, issued, dependents, documents, storage, messages>>

\* lines 1437-1440: the SELECT fails
DownloadSelectError ==
  /\ op.kind = "download" /\ op.pc = "select"
  /\ op' = [op EXCEPT !.pc = "done", !.res = [status |-> 500, error |-> "Database error"]]
  /\ UNCHANGED <<tz, personal_info, dueVars, cal, reqs,
                 users, clock, issued, dependents, documents, storage, messages>>

\* lines 1512-1519
DeleteRequest(documentId) ==
  /\ Idle
  /\ op' = [kind |-> "delete", pc |-> "select", documentId |-> documentId,
            storageError |-> FALSE, queryError |-> FALSE,
            res |-> NoAnswer, before |-> documents]
  /\ UNCHANGED <<tz, personal_info, dueVars, cal, reqs,
                 users, clock, issued, dependents, documents, storage, messages>>

\* lines 1520-1531 and 1551-1559: the row is read; for a local file the
\* unlink is started, its outcome only logged
DeleteSelect(unlinkError) ==
  /\ op.kind = "delete" /\ op.pc = "select"
  /\ IF DocumentRows(op.documentId) = {}
     THEN /\ op' = [op EXCEPT !.pc = "done",
                      !.res = [status |-> 404, error |-> "Document not found"]]
          /\ UNCHANGED storage
     ELSE LET row == CHOOSE d \in DocumentRows(op.documentId) : TRUE
          IN  IF Truthy(row.cloudinary_public_id)
              THEN /\ ~unlinkError
                   /\ op' = [op EXCEPT !.pc = "destroy"]
                   /\ UNCHANGED storage
              ELSE /\ row.file_path \notin storage.uploads => unlinkError
                   /\ op' = [op EXCEPT !.pc = "delete", !.storageError = unlinkError]
                   /\ storage' = IF unlinkError THEN storage
                                 ELSE [storage EXCEPT !.uploads = @ \ {row.file_path}]
  /\ UNCHANGED <<tz, personal_info, dueVars, cal, reqs,
                 users, clock, issued, dependents, documents, messages>>

\* lines 1524-1526: the SELECT fails
DeleteSelectError ==
  /\ op.kind = "delete" /\ op.pc = "select"
  /\ op' = [op EXCEPT !.pc = "done", !.queryError = TRUE,
              !.res = [status |-> 500, error |-> "error"]]
  /\ UNCHANGED <<tz, personal_info, dueVars, cal, reqs,
                 users, clock, issued, dependents, documents, storage, messages>>

\* lines 1534-1540: cloudinary.uploader.destroy calls back
DeleteDestroy(error) ==
  /\ op.kind = "delete" /\ op.pc = "destroy"
  /\ LET row == CHOOSE d \in DocumentRows(op.documentId) : TRUE
     IN  storage' = IF error THEN storage
                    ELSE [storage EXCEPT !.cloudinary = @ \ {row.cloudinary_public_id}]
  /\ op' = IF Continues(error)
           THEN [op EXCEPT !.pc = "delete", !.storageError = error]
           ELSE [op EXCEPT !.pc = "done", !.storageError = error,
                   !.res = [status |-> 500, error |-> "error"]]
  /\ UNCHANGED <<tz, personal_info, dueVars, cal, reqs,
                 users, clock, issued, dependents, documents, messages>>

\* lines 1543-1551 and 1562-1571: DELETE FROM documents WHERE id = ?
DeleteRow ==
  /\ op.kind = "delete" /\ op.pc = "delete"
  /\ documents' = [documents EXCEPT !.rows = @ \ DocumentRows(op.documentId)]
  /\ op' = [op EXCEPT !.pc = "done",
              !.res = [status |-> 200, message |-> "Document deleted successfully"]]
  /\ UNCHANGED <<tz, personal_info, dueVars, cal, reqs,
                 users, clock, issued, dependents, storage, messages>>

\* lines 1546-1548 and 1566-1568: the DELETE fails
DeleteRowError ==
  /\ op.kind = "delete" /\ op.pc = "delete"
  /\ op' = [op EXCEPT !.pc = "done", !.queryError = TRUE,
              !.res = [status |-> 500, error |-> "error"]]
  /\ UNCHANGED <<tz, personal_info, dueVars, cal, reqs,
                 users, clock, issued, dependents, documents, storage, messages>>

NextDocuments ==
  \/ \E loggedIn \in BOOLEAN, fieldsPresent \in BOOLEAN,
        form_name \in FormNames \cup {"other"}, files \in FileLists :
       UploadRequest(loggedIn, fieldsPresent, form_name, files)
  \/ UploadForm
  \/ UploadFormError
  \/ \E i \in 1..MaxFiles, inserted \in BOOLEAN : UploadInsert(i, inserted)
  \/ \E loggedIn \in BOOLEAN, id \in DocumentIds, inline \in InlineValues :
       DownloadRequest(loggedIn, id, inline)
  \/ DownloadSelect
  \/ DownloadSelectError
  \/ \E id \in DocumentIds : DeleteRequest(id)
  \/ \E unlinkError \in BOOLEAN : DeleteSelect(unlinkError)
  \/ DeleteSelectError
  \/ \E error \in BOOLEAN : DeleteDestroy(error)
  \/ DeleteRow
  \/ DeleteRowError

SpecDocuments == InitDocuments /\ [][NextDocuments]_vars

(***************************************************************************)
(* Vocabulary of the properties.  Dates are read off the returned text     *)
(* field by field and compared as calendar dates.                          *)
(***************************************************************************)
\* the request has run the three branches on a profile row
Computed == pc = "done" /\ res.status = 200 /\ userInfo # NoRow

CivilDate(s) ==
  [year |-> DigitsValue(SubSeq(s, 1, 4)),
   month |-> DigitsValue(SubSeq(s, 6, 7)),
   day |-> DigitsValue(SubSeq(s, 9, 10))]

Date(y, m, d) == [year |-> y, month |-> m, day |-> d]

Before(a, b) ==
  \/ a.year < b.year
  \/ a.year = b.year /\ a.month < b.month
  \/ a.year = b.year /\ a.month = b.month /\ a.day < b.day

AsOfDate == Date(asOf.year, asOf.month, asOf.day)

\* the month after asOf's month, and the year it falls in
MonthAfter == IF asOf.month = 12 THEN 1 ELSE asOf.month + 1
YearOfMonthAfter == IF asOf.month = 12 THEN asOf.year + 1 ELSE asOf.year

EntriesOf(list, agency) == SelectSeq(list, LAMBDA e : e.agency = agency)

IsQuarterly(e) ==
  e.description = "Pag-IBIG contribution payment (Quarterly Option) - Form MDF, POF"

\* list is entries with some of its elements removed, the order kept
RECURSIVE IsSubsequence(_, _)
IsSubsequence(list, entries) ==
  IF list = <<>> THEN TRUE
  ELSE IF entries = <<>> THEN FALSE
  ELSE IF Head(list) = Head(entries) THEN IsSubsequence(Tail(list), Tail(entries))
  ELSE IsSubsequence(list, Tail(entries))

LastChar(s) == s[Len(s)]

(***************************************************************************)
(* C1: no entry of the response has a dueDate before asOf's calendar date. *)
(***************************************************************************)
C1_NoReturnedDateBeforeAsOf ==
  Computed =>
    \A i \in 1..Len(res.dueDates) :
      ~Before(CivilDate(res.dueDates[i].dueDate), AsOfDate)

\* a response from which the filter has removed an entry and kept others
C1_Witness ==
  /\ Computed
  /\ Len(res.dueDates) > 0
  /\ Len(res.dueDates) < Len(dueDates)

(***************************************************************************)
(* C2: a candidate entry whose dueDate is asOf's own calendar date is in   *)
(* the response, whatever the time of day of asOf.                         *)
(***************************************************************************)
C2_SameDayEntryRetained ==
  Computed =>
    \A i \in 1..Len(dueDates) :
      CivilDate(dueDates[i].dueDate) = AsOfDate
        => \E j \in 1..Len(res.dueDates) : res.dueDates[j] = dueDates[i]

(***************************************************************************)
(* C3: employed, PhilHealth number ending in a digit: one PhilHealth entry,*)
(* due on day 15 (final digit 1..5) or day 20 (final digit 0, 6..9) of the *)
(* month after asOf's month, in the following year when asOf is in         *)
(* December.                                                               *)
(***************************************************************************)
C3_PhilHealthEmployed ==
  ( /\ Computed
    /\ userInfo.employment_status = "employed"
    /\ Truthy(userInfo.philhealth_number)
    /\ LastChar(userInfo.philhealth_number) \in DigitSet )
  => LET entries == EntriesOf(res.dueDates, "PhilHealth")
         day == IF LastChar(userInfo.philhealth_number) \in {"1", "2", "3", "4", "5"}
                THEN 15 ELSE 20
     IN  /\ Len(entries) = 1
         /\ EntriesOf(dueDates, "PhilHealth") = entries
         /\ CivilDate(entries[1].dueDate) = Date(YearOfMonthAfter, MonthAfter, day)

\* December, final digit 7: due on 20 January of the next year
C3_Witness ==
  /\ Computed
  /\ userInfo.employment_status = "employed"
  /\ Truthy(userInfo.philhealth_number)
  /\ LastChar(userInfo.philhealth_number) = "7"
  /\ asOf.month = 12
  /\ Len(EntriesOf(res.dueDates, "PhilHealth")) = 1
  /\ CivilDate(EntriesOf(res.dueDates, "PhilHealth")[1].dueDate)
       = Date(asOf.year + 1, 1, 20)

(***************************************************************************)
(* C4: self-employed with a PhilHealth number: the PhilHealth entry the    *)
(* handler generates, and any PhilHealth entry it returns, is due on the   *)
(* last calendar day of asOf's own month and year.                         *)
(***************************************************************************)
C4_PhilHealthSelfEmployed ==
  ( /\ Computed
    /\ userInfo.employment_status = "self-employed"
    /\ Truthy(userInfo.philhealth_number) )
  => LET generated == EntriesOf(dueDates, "PhilHealth")
         returned == EntriesOf(res.dueDates, "PhilHealth")
     IN  /\ Len(generated) = 1
         /\ CivilDate(generated[1].dueDate)
              = Date(asOf.year, asOf.month, GregorianDays(asOf.year, asOf.month))
         /\ returned \in {generated, <<>>}

\* the middle of February of a leap year: the entry returned is due on the 29th
C4_Witness ==
  /\ Computed
  /\ userInfo.employment_status = "self-employed"
  /\ Truthy(userInfo.philhealth_number)
  /\ IsLeapYear(asOf.year) /\ asOf.month = 2 /\ asOf.day = 15
  /\ Len(EntriesOf(res.dueDates, "PhilHealth")) = 1
  /\ CivilDate(EntriesOf(res.dueDates, "PhilHealth")[1].dueDate).day = 29

(***************************************************************************)
(* C5: a profile with an SSS number, whatever its employment status, gets  *)
(* exactly one SSS entry, due on the last calendar day of the month after  *)
(* asOf's month (of the following year when asOf is in December).          *)
(***************************************************************************)
C5_SSS ==
  ( Computed /\ Truthy(userInfo.sss_number) )
  => LET entries == EntriesOf(res.dueDates, "SSS")
     IN  /\ Len(entries) = 1
         /\ EntriesOf(dueDates, "SSS") = entries
         /\ CivilDate(entries[1].dueDate)
              = Date(YearOfMonthAfter, MonthAfter,
                     GregorianDays(YearOfMonthAfter, MonthAfter))

\* 31 January, no employment status: due on the last day of February
C5_Witness ==
  /\ Computed
  /\ Truthy(userInfo.sss_number)
  /\ userInfo.employment_status = NullStatus
  /\ asOf.month = 1 /\ asOf.day = 31
  /\ Len(EntriesOf(res.dueDates, "SSS")) = 1
  /\ CivilDate(EntriesOf(res.dueDates, "SSS")[1].dueDate)
       = Date(asOf.year, 2, IF IsLeapYear(asOf.year) THEN 29 ELSE 28)

(***************************************************************************)
(* C6: employed or self-employed with a Pag-IBIG number: the first         *)
(* Pag-IBIG entry is due on day 10 of the month after asOf's month (of the *)
(* following year when asOf is in December).                               *)
(***************************************************************************)
C6_PagIbigPrimary ==
  ( /\ Computed
    /\ userInfo.employment_status \in {"employed", "self-employed"}
    /\ Truthy(userInfo.pagibig_number) )
  => LET entries == EntriesOf(res.dueDates, "Pag-IBIG")
         generated == EntriesOf(dueDates, "Pag-IBIG")
     IN  /\ Len(entries) >= 1
         /\ Len(generated) >= 1
         /\ entries[1] = generated[1]
         /\ ~IsQuarterly(entries[1])
         /\ CivilDate(entries[1].dueDate) = Date(YearOfMonthAfter, MonthAfter, 10)

\* December: due on 10 January of the next year
C6_Witness ==
  /\ Computed
  /\ userInfo.employment_status = "employed"
  /\ Truthy(userInfo.pagibig_number)
  /\ asOf.month = 12
  /\ Len(EntriesOf(res.dueDates, "Pag-IBIG")) = 1
  /\ CivilDate(EntriesOf(res.dueDates, "Pag-IBIG")[1].dueDate)
       = Date(asOf.year + 1, 1, 10)

C8_QuarterlyOption ==
  Computed =>
    /\ \A i \in 1..Len(dueDates) :
         IsQuarterly(dueDates[i]) =>
           LET due == CivilDate(dueDates[i].dueDate)
           IN  /\ asOf.month \in 1..3 => due = Date(asOf.year, 4, 1)
               /\ asOf.month \in 4..6 => due = Date(asOf.year, 7, 1)
               /\ asOf.month \in 7..9 => due = Date(asOf.year, 10, 1)
               /\ asOf.month \in 10..12 => due = Date(asOf.year + 1, 1, 1)
               /\ due.month \in {1, 4, 7, 10}
               /\ Before(AsOfDate, due)
    /\ \A j \in 1..Len(res.dueDates) :
         IsQuarterly(res.dueDates[j]) =>
           \E i \in 1..Len(dueDates) : dueDates[i] = res.dueDates[j]

\* November: the entry returned is due on 1 January of the next year
C8_Witness ==
  /\ Computed
  /\ asOf.month = 11
  /\ \E j \in 1..Len(res.dueDates) :
       /\ IsQuarterly(res.dueDates[j])
       /\ CivilDate(res.dueDates[j].dueDate) = Date(asOf.year + 1, 1, 1)

(***************************************************************************)
(* C9: getLastDayOfMonth returns the Gregorian length of the month: 31 for *)
(* months 1, 3, 5, 7, 8, 10, 12; 30 for 4, 6, 9, 11; for February 29 in a  *)
(* year divisible by 4 and not by 100, or divisible by 400, and 28         *)
(* otherwise.                                                              *)
(***************************************************************************)
C9_LastDayOfMonth ==
  cal.pc = "done" =>
    cal.result =
      CASE cal.month \in {1, 3, 5, 7, 8, 10, 12} -> 31
        [] cal.month \in {4, 6, 9, 11} -> 30
        [] OTHER ->
             IF (cal.year % 4 = 0 /\ cal.year % 100 # 0) \/ cal.year % 400 = 0
             THEN 29 ELSE 28

\* February of a century year that is no leap year
C9_Witness == cal.pc = "done" /\ cal.year = 1900 /\ cal.month = 2 /\ cal.result = 28

(***************************************************************************)
(* C10: a profile none of whose three membership numbers is set (null or   *)
(* empty) gets an empty list, for every employment status and every asOf.  *)
(***************************************************************************)
C10_NoNumbersNoEntries ==
  ( /\ Computed
    /\ userInfo.philhealth_number \in {NULL, <<>>}
    /\ userInfo.sss_number \in {NULL, <<>>}
    /\ userInfo.pagibig_number \in {NULL, <<>>} )
  => res.dueDates = <<>> /\ dueDates = <<>>

\* a self-employed profile with an empty SSS number and no other number
C10_Witness ==
  /\ Computed
  /\ userInfo.employment_status = "self-employed"
  /\ userInfo.philhealth_number = NULL
  /\ userInfo.sss_number = <<>>
  /\ userInfo.pagibig_number = NULL
  /\ asOf # NoDate
  /\ res = Ok(<<>>)

(***************************************************************************)
(* C11: an entry of an agency exists only if the profile's number for that *)
(* agency is present, and its membershipNumber is the profile's number for *)
(* that same agency.                                                       *)
(***************************************************************************)
NumberOf(info, agency) ==
  CASE agency = "PhilHealth" -> info.philhealth_number
    [] agency = "SSS" -> info.sss_number
    [] agency = "Pag-IBIG" -> info.pagibig_number
    [] OTHER -> NULL

OwnNumber(info, e) ==
  /\ NumberOf(info, e.agency) \notin {NULL, <<>>}
  /\ e.membershipNumber = NumberOf(info, e.agency)

C11_EntryEchoesOwnNumber ==
  Computed =>
    /\ \A i \in 1..Len(dueDates) : OwnNumber(userInfo, dueDates[i])
    /\ \A j \in 1..Len(res.dueDates) : OwnNumber(userInfo, res.dueDates[j])

\* the three numbers present and different, an entry of every agency returned
C11_Witness ==
  /\ Computed
  /\ Truthy(userInfo.philhealth_number)
  /\ Truthy(userInfo.sss_number)
  /\ Truthy(userInfo.pagibig_number)
  /\ \A a \in {"PhilHealth", "SSS", "Pag-IBIG"} : Len(EntriesOf(res.dueDates, a)) >= 1

(***************************************************************************)
(* C12: on every profile row, whatever its numbers and its status, and at  *)
(* every asOf the computation answers with a list and never with an error. *)
(***************************************************************************)
C12_AlwaysSucceeds ==
  ( pc = "done" /\ err = NoError /\ personal_info[userId] # NoRow )
  => /\ res.status = 200
     /\ ~res.error
     /\ userInfo = personal_info[userId]

\* no status, a PhilHealth number ending in a letter: the empty list
C12_Witness ==
  /\ pc = "done" /\ err = NoError
  /\ userInfo # NoRow
  /\ userInfo.employment_status = NullStatus
  /\ userInfo.philhealth_number = <<"3", "X">>
  /\ userInfo.sss_number = NULL
  /\ res = Ok(<<>>)

(***************************************************************************)
(* C13: employed, PhilHealth number ending in a character that is no       *)
(* digit: the PhilHealth entry is produced, due on day 20 of the next      *)
(* month, and no error is raised.                                          *)
(***************************************************************************)
C13_NonDigitGivesTwenty ==
  ( /\ pc = "done" /\ err = NoError
    /\ userInfo # NoRow
    /\ userInfo.employment_status = "employed"
    /\ Truthy(userInfo.philhealth_number)
    /\ LastChar(userInfo.philhealth_number) \notin DigitSet )
  => /\ res.status = 200 /\ ~res.error
     /\ Len(EntriesOf(res.dueDates, "PhilHealth")) = 1
     /\ CivilDate(EntriesOf(res.dueDates, "PhilHealth")[1].dueDate)
          = Date(YearOfMonthAfter, MonthAfter, 20)

C13_Witness ==
  /\ Computed
  /\ userInfo.employment_status = "employed"
  /\ userInfo.philhealth_number = <<"3", "X">>
  /\ Len(EntriesOf(res.dueDates, "PhilHealth")) = 1
  /\ CivilDate(EntriesOf(res.dueDates, "PhilHealth")[1].dueDate).day = 20

(***************************************************************************)
(* C14: a status that is neither employed nor self-employed gives no       *)
(* PhilHealth entry and no Pag-IBIG entry, whatever the numbers: the       *)
(* result holds at most the one SSS entry.                                 *)
(***************************************************************************)
C14_OtherStatusOnlySSS ==
  ( Computed /\ userInfo.employment_status \notin {"employed", "self-employed"} )
  => /\ EntriesOf(dueDates, "PhilHealth") = <<>>
     /\ EntriesOf(dueDates, "Pag-IBIG") = <<>>
     /\ Len(res.dueDates) <= 1
     /\ \A j \in 1..Len(res.dueDates) : res.dueDates[j].agency = "SSS"

\* a status outside the enumeration, the three numbers present: one SSS entry
C14_Witness ==
  /\ Computed
  /\ userInfo.employment_status = ""
  /\ Truthy(userInfo.philhealth_number)
  /\ Truthy(userInfo.sss_number)
  /\ Truthy(userInfo.pagibig_number)
  /\ Len(res.dueDates) = 1
  /\ res.dueDates[1].agency = "SSS"

(***************************************************************************)
(* C15: the entries come in the order PhilHealth, SSS, Pag-IBIG primary,   *)
(* Pag-IBIG quarterly option, and the filter keeps that order: the result  *)
(* is a subsequence of the candidates.                                     *)
(***************************************************************************)
Rank(e) ==
  CASE e.agency = "PhilHealth" -> 1
    [] e.agency = "SSS" -> 2
    [] e.agency = "Pag-IBIG" /\ ~IsQuarterly(e) -> 3
    [] OTHER -> 4

InRankOrder(list) ==
  \A i \in 1..Len(list), j \in 1..Len(list) : i < j => Rank(list[i]) < Rank(list[j])

C15_FixedOrder ==
  Computed =>
    /\ InRankOrder(dueDates)
    /\ InRankOrder(res.dueDates)
    /\ IsSubsequence(res.dueDates, dueDates)

\* four candidates of which the filter has removed the first
C15_Witness ==
  /\ Computed
  /\ Len(dueDates) = 4
  /\ res.dueDates = Tail(dueDates)

(***************************************************************************)
(* C16: two calls with the same profile and the same asOf give the same    *)
(* result, whatever was served in between: nothing is kept from one call   *)
(* to the next and the profile is left as it was.                          *)
(***************************************************************************)
Served(q) == q.pc = "done" /\ q.err = NoError

C16_SameInputsSameResult ==
  /\ personal_info = ConcTable
  /\ \A r1 \in Slots, r2 \in Slots :
       ( /\ Served(reqs[r1]) /\ Served(reqs[r2])
         /\ reqs[r1].userId = reqs[r2].userId
         /\ reqs[r1].asOf = reqs[r2].asOf )
       => reqs[r1].res = reqs[r2].res

\* both slots have served the same user at the same asOf, four candidates each
C16_Witness ==
  /\ Served(reqs[1]) /\ Served(reqs[2])
  /\ reqs[1].userId = 2 /\ reqs[2].userId = 2
  /\ reqs[1].asOf # NoDate
  /\ reqs[1].asOf = reqs[2].asOf
  /\ Len(dueDates) = 4
  /\ Len(reqs[1].res.dueDates) >= 2
  /\ reqs[1].res = reqs[2].res

(***************************************************************************)
(* C17: requests in flight together do not interfere: under every order of *)
(* the callbacks each response is the one computed in isolation for its    *)
(* own profile and its own asOf, and holds no entry of another request.    *)
(***************************************************************************)
C17_NoInterference ==
  \A r \in Slots :
    reqs[r].pc = "done" =>
      /\ reqs[r].res =
           Response(reqs[r].err, SelectPersonalInfo(reqs[r].userId), reqs[r].now, tz)
      /\ \A j \in 1..Len(reqs[r].res.dueDates) :
           OwnNumber(personal_info[reqs[r].userId], reqs[r].res.dueDates[j])

\* the two slots answered for different users at different asOfs
C17_Witness ==
  /\ Served(reqs[1]) /\ Served(reqs[2])
  /\ reqs[1].userId = 1 /\ reqs[2].userId = 2
  /\ reqs[1].asOf # NoDate /\ reqs[2].asOf # NoDate
  /\ reqs[1].asOf # reqs[2].asOf
  /\ Len(reqs[1].res.dueDates) = 3
  /\ Len(reqs[2].res.dueDates) >= 2
  /\ \A i \in 1..Len(reqs[1].res.dueDates), j \in 1..Len(reqs[2].res.dueDates) :
       reqs[1].res.dueDates[i] # reqs[2].res.dueDates[j]

(***************************************************************************)
(* C18: no row for the requested user: the handler answers 200 with an     *)
(* empty dueDates list, not with an error.                                 *)
(***************************************************************************)
C18_NoRowEmptyList ==
  ( pc = "done" /\ err = NoError /\ personal_info[userId] = NoRow )
  => res = Ok(<<>>)

C18_Witness ==
  /\ pc = "done" /\ err = NoError
  /\ personal_info[userId] = NoRow
  /\ res = Ok(<<>>)
  /\ dueDates = <<>>

(***************************************************************************)
(* C19, as claimed: a failed lookup is treated as an empty profile, the    *)
(* answer being the one of a user without a row and no error.              *)
(***************************************************************************)
C19_FailureAsEmptyProfile ==
  ( pc = "done" /\ err = QueryError ) => ( res = Ok(<<>>) /\ ~res.error )

(***************************************************************************)
(* C19, amended: a failed lookup is answered with status 500 and the       *)
(* error; the computation is not run on it and no entry is produced.       *)
(***************************************************************************)
C19_FailureReported ==
  ( pc = "done" /\ err = QueryError )
  => /\ res = ServerError
     /\ res.dueDates = <<>>
     /\ dueDates = <<>>
     /\ userInfo = NoRow
     /\ asOf = NoDate

\* the lookup fails for a user whose row holds the three numbers
C19_Witness ==
  /\ pc = "done" /\ err = QueryError
  /\ personal_info[userId] # NoRow
  /\ Truthy(personal_info[userId].philhealth_number)
  /\ Truthy(personal_info[userId].sss_number)
  /\ Truthy(personal_info[userId].pagibig_number)
  /\ res.status = 500

(***************************************************************************)
(* C20: every element of a successful response has the four fields agency,*)
(* description, dueDate and membershipNumber; agency is one of the three   *)
(* agencies; dueDate is ten characters YYYY-MM-DD with a two-digit month   *)
(* 01..12 and a two-digit day that exists in that month.                   *)
(***************************************************************************)
IsDateText(s) ==
  /\ Len(s) = 10
  /\ s[5] = "-" /\ s[8] = "-"
  /\ \A i \in {1, 2, 3, 4, 6, 7, 9, 10} : s[i] \in DigitSet
  /\ CivilDate(s).month \in 1..12
  /\ CivilDate(s).day \in 1..GregorianDays(CivilDate(s).year, CivilDate(s).month)

C20_ResponseShape ==
  ( pc = "done" /\ res.status = 200 )
  => \A j \in 1..Len(res.dueDates) :
       /\ DOMAIN res.dueDates[j] = {"agency", "description", "dueDate", "membershipNumber"}
       /\ res.dueDates[j].agency \in {"PhilHealth", "SSS", "Pag-IBIG"}
       /\ IsDateText(res.dueDates[j].dueDate)

\* a response with an entry due on 29 February and one due on the 1st
C20_Witness ==
  /\ Computed
  /\ \E j \in 1..Len(res.dueDates) :
       /\ CivilDate(res.dueDates[j].dueDate).month = 2
       /\ CivilDate(res.dueDates[j].dueDate).day = 29
  /\ \E j \in 1..Len(res.dueDates) : CivilDate(res.dueDates[j].dueDate).day = 1

(***************************************************************************)
(* C21: the description of every entry names the forms of its branch:      *)
(* PhilHealth PMRF, ER2 (employed) or PMRF, PPP5 (self-employed); SSS      *)
(* R-1, R-1A, R-3 (employed) or RS-1, RS-5 (every other status); Pag-IBIG  *)
(* primary ER1, MDF, MRS (employed) or MDF, POF (self-employed); the       *)
(* quarterly option MDF, POF with the option noted.                        *)
(***************************************************************************)
StatusLabel(info) ==
  IF info.employment_status = "employed" THEN "Employed" ELSE "Self-employed"

FormsNamed(info, agency, quarterly) ==
  CASE agency = "PhilHealth" ->
         IF info.employment_status = "employed" THEN "PMRF, ER2" ELSE "PMRF, PPP5"
    [] agency = "SSS" ->
         IF info.employment_status = "employed" THEN "R-1, R-1A, R-3" ELSE "RS-1, RS-5"
    [] OTHER ->
         IF info.employment_status = "employed" /\ ~quarterly
         THEN "ER1, MDF, MRS" ELSE "MDF, POF"

Describes(info, e, quarterly) ==
  e.description =
    e.agency \o " contribution payment ("
      \o (IF quarterly THEN "Quarterly Option" ELSE StatusLabel(info))
      \o ") - Form " \o FormsNamed(info, e.agency, quarterly)

\* the second Pag-IBIG entry of a list is the quarterly option
DescribedList(info, list) ==
  /\ \A e \in {list[i] : i \in 1..Len(list)} :
       e.agency # "Pag-IBIG" => Describes(info, e, FALSE)
  /\ LET pagibig == EntriesOf(list, "Pag-IBIG")
     IN  \A i \in 1..Len(pagibig) : Describes(info, pagibig[i], i = 2)

C21_DescriptionsNameForms ==
  Computed => DescribedList(userInfo, dueDates) /\ DescribedList(userInfo, res.dueDates)

\* a row without a status: the SSS entry names the forms RS-1, RS-5
C21_Witness ==
  /\ Computed
  /\ userInfo.employment_status = NullStatus
  /\ Len(res.dueDates) = 1
  /\ res.dueDates[1].description = "SSS contribution payment (Self-employed) - Form RS-1, RS-5"

(***************************************************************************)
(* C22: DELETE /api/documents/:documentId on an existing document removes  *)
(* its row, for a Cloudinary file and for a local file alike, also when    *)
(* the stored file could not be deleted; after the success response no     *)
(* row with that id remains.                                               *)
(***************************************************************************)
C22_DeleteRemovesRow ==
  IF op.kind = "delete"
  THEN op.pc = "done" =>
         /\ op.res.status = 200 => DocumentRows(op.documentId) = {}
         /\ ( /\ \E d \in op.before.rows : d.id = op.documentId
              /\ ~op.queryError )
            => /\ op.res.status = 200
               /\ DocumentRows(op.documentId) = {}
  ELSE TRUE

\* the asset could not be destroyed and is still stored; the row is gone
C22_Witness ==
  /\ op.kind = "delete"
  /\ op.pc = "done"
  /\ op.documentId = 2
  /\ op.storageError
  /\ <<"c">> \in storage.cloudinary
  /\ op.res.status = 200
  /\ DocumentRows(2) = {}

(***************************************************************************)
(* C23: an upload or a download asked for by a caller who has not logged   *)
(* in is never served: nothing is stored, recorded, redirected to or sent. *)
(***************************************************************************)
C23_OnlyAuthenticated ==
  IF op.kind = "upload"
  THEN ~op.loggedIn => ( documents = op.before /\ op.res.status # 200 )
  ELSE IF op.kind = "download"
  THEN ~op.loggedIn => op.res.status \notin {200, 302}
  ELSE TRUE

(***************************************************************************)
(* C24: an upload with a file whose MIME type is not in the allowed list   *)
(* is rejected with the error 'Invalid file type' and creates no documents *)
(* row; files whose types are all in the list pass the filter.             *)
(***************************************************************************)
HasUnlistedType(files) ==
  \E i \in 1..Len(files) : files[i].mimetype \notin allowedMimes

C24_InvalidTypeRejected ==
  IF op.kind = "upload"
  THEN IF HasUnlistedType(op.files)
       THEN /\ op.pc = "done"
            /\ op.res.status >= 400
            /\ op.res.error = InvalidFileType
            /\ op.responses = 1
            /\ documents = op.before
       ELSE op.res.status >= 400 => op.res.error # InvalidFileType
  ELSE TRUE

\* a PDF followed by an SVG image: the whole request is rejected
C24_Witness ==
  /\ op.kind = "upload"
  /\ Len(op.files) = 2
  /\ op.files[1].mimetype = "application/pdf"
  /\ op.files[2].mimetype = "image/svg+xml"
  /\ op.fieldsPresent /\ op.form_name \in FormNames
  /\ op.res.status >= 400
  /\ op.res.error = InvalidFileType
  /\ documents = op.before

(***************************************************************************)
(* C25: a download of a document whose file_path starts with http:// or    *)
(* https:// is a redirect, to the stored URL as it is when inline=true and *)
(* otherwise to the URL with '/upload/' replaced by                        *)
(* '/upload/fl_attachment/' (its first occurrence); any other file_path is *)
(* served from the directory uploads, or answered 404 when the file is     *)
(* missing; an unknown id is answered 404.                                 *)
(***************************************************************************)
HasUpload(url) == \E k \in 1..Len(url) : url[k] = "/upload/"

FirstUpload(url) ==
  CHOOSE k \in 1..Len(url) :
    url[k] = "/upload/" /\ \A j \in 1..(k - 1) : url[j] # "/upload/"

ForcedDownload(url) ==
  IF HasUpload(url) THEN [url EXCEPT ![FirstUpload(url)] = "/upload/fl_attachment/"] ELSE url

C25_DownloadAnswer ==
  IF op.kind = "download"
  THEN ( op.pc = "done" /\ op.res.status # 500 ) =>
         IF DocumentRows(op.documentId) = {}
         THEN op.res.status = 404
         ELSE \A row \in DocumentRows(op.documentId) :
                IF Len(row.file_path) > 0 /\ row.file_path[1] \in {"http://", "https://"}
                THEN /\ op.res.status = 302
                     /\ op.res.location = IF op.inline = "true" THEN row.file_path
                                          ELSE ForcedDownload(row.file_path)
                ELSE IF row.file_path \in storage.uploads
                THEN op.res.status = 200 /\ op.res.file = row.file_path
                ELSE op.res.status = 404
  ELSE TRUE

\* an http:// URL without '/upload/' is the target as it is
C25_Witness ==
  /\ op.kind = "download"
  /\ op.pc = "done"
  /\ op.inline = "false"
  /\ op.res.status = 302
  /\ op.res.location = <<"http://", "host", "/raw/", "c.pdf">>

(***************************************************************************)
(* C26: no candidate is due before asOf's calendar date, so the filter     *)
(* removes nothing: the response is the whole candidate list, for every    *)
(* profile and every asOf.                                                 *)
(***************************************************************************)
C26_FilterRemovesNothing ==
  Computed =>
    /\ \A i \in 1..Len(dueDates) : ~Before(CivilDate(dueDates[i].dueDate), AsOfDate)
    /\ res.dueDates = dueDates

(***************************************************************************)
(* C27: a reset token authorises at most one successful reset: once a      *)
(* request with token T has succeeded, every other request presenting T,   *)
(* one already in flight included, is rejected and changes no password.    *)
(***************************************************************************)
C27_TokenResetsOnce ==
  \A r1 \in Slots, r2 \in Slots :
    ( /\ r1 # r2
      /\ reqs[r1].token # NoToken
      /\ reqs[r1].token = reqs[r2].token
      /\ reqs[r1].pc = "done" /\ reqs[r1].res.status = 200
      /\ reqs[r2].pc = "done" )
    => /\ reqs[r2].res.status = 400
       /\ reqs[r2].res.body = "Invalid or expired token"

(***************************************************************************)
(* C28: once the POSTs for user U have completed successfully, the stored  *)
(* dependents of U are exactly the list submitted by one of them, none     *)
(* kept from before and none twice, and the personal_info row is the one   *)
(* that same request wrote, also when two POSTs for U interleave.          *)
(***************************************************************************)
Saved(q) == q.pc = "done" /\ q.res.status = 200

C28_DependentsOfOneRequest ==
  ( /\ \A r \in Slots : reqs[r].pc = "idle" \/ Saved(reqs[r])
    /\ \E r \in Slots : Saved(reqs[r]) )
  => \E r \in Slots :
       /\ Saved(reqs[r])
       /\ SelectDependents(dependents, reqs[r].userId)
            = DepValues(reqs[r].userId, reqs[r].dependents)
       /\ personal_info[reqs[r].userId] = reqs[r].info

(***************************************************************************)
(* C29: an upload with every field, a known form name and n >= 1 files     *)
(* sends exactly one response, only after the n insert callbacks have run, *)
(* in whatever order, and its files list holds exactly the files whose     *)
(* insert succeeded; a request with a missing field, no file or an unknown *)
(* form name is answered 400 and creates no documents row.                 *)
(***************************************************************************)
PassesFilter(files) == \A i \in 1..Len(files) : files[i].mimetype \in allowedMimes

Inserted(q) == {i \in 1..Len(q.files) : q.insertIds[i] > 0}

C29_UploadResponse ==
  IF op.kind = "upload" /\ PassesFilter(op.files) /\ ~op.formError
  THEN /\ op.responses <= 1
       /\ IF op.fieldsPresent /\ Len(op.files) >= 1 /\ op.form_name \in FormNames
          THEN /\ op.responses = 1 <=> \A i \in 1..Len(op.files) : op.insertIds[i] # 0
               /\ op.responses = 1 =>
                    /\ op.res.status = 200
                    /\ Len(op.res.files) = Cardinality(Inserted(op))
                    /\ \A i \in Inserted(op) :
                         \E k \in 1..Len(op.res.files) :
                           /\ op.res.files[k].id = op.insertIds[i]
                           /\ op.res.files[k].fileName = op.files[i].originalname
                    /\ documents.rows =
                         op.before.rows \cup
                           {[id |-> op.insertIds[i],
                             file_name |-> op.files[i].originalname,
                             file_path |-> CloudinaryUrl(op.files[i]),
                             cloudinary_public_id |-> PublicId(op.files[i])] :
                              i \in Inserted(op)}
          ELSE /\ op.pc = "done" => ( op.responses = 1 /\ op.res.status = 400 )
               /\ documents = op.before
  ELSE TRUE

\* two files: the insert of the first failed, the second is in the answer
C29_Witness ==
  /\ op.kind = "upload"
  /\ op.pc = "done"
  /\ Len(op.files) = 2
  /\ op.insertIds[1] = -1
  /\ op.insertIds[2] > 0
  /\ op.responses = 1
  /\ op.res.status = 200
  /\ Len(op.res.files) = 1
  /\ op.res.files[1].fileName = op.files[2].originalname

(***************************************************************************)
(* C30: mark-read with receiver R and sender S sets is_read to 1 on        *)
(* exactly the unread messages from S to R and leaves every other message  *)
(* as it was; no operation sets is_read back to 0; a newly posted message  *)
(* starts unread; the same call made again changes nothing and reports     *)
(* affectedRows 0.                                                         *)
(***************************************************************************)
UnreadFromTo(m, S, R) == m.sender_id = S /\ m.receiver_id = R /\ m.is_read = 0

MarkReadStep ==
  /\ Len(messages') >= Len(messages)
  /\ \A i \in 1..Len(messages) : messages[i].is_read = 1 => messages'[i].is_read = 1
  /\ \A i \in (Len(messages) + 1)..Len(messages') : messages'[i].is_read = 0
  /\ op'.kind = "mark-read" =>
       /\ Len(messages') = Len(messages)
       /\ \A i \in 1..Len(messages) :
            messages'[i] =
              IF op'.status = 200 /\ UnreadFromTo(messages[i], op'.sender_id, op'.receiver_id)
              THEN [messages[i] EXCEPT !.is_read = 1]
              ELSE messages[i]
       /\ op'.status = 200 =>
            op'.affectedRows =
              Cardinality({i \in 1..Len(messages) :
                             UnreadFromTo(messages[i], op'.sender_id, op'.receiver_id)})
       /\ ( /\ op.kind = "mark-read" /\ op.status = 200 /\ op'.status = 200
            /\ op.receiver_id = op'.receiver_id /\ op.sender_id = op'.sender_id )
          => ( op'.affectedRows = 0 /\ messages' = messages )

C30_MarkRead == [][MarkReadStep]_vars

\* the call for receiver 1 and sender 2 found nothing left to mark: their
\* message is read, one from another sender to the same receiver is not
C30_Witness ==
  /\ op.kind = "mark-read" /\ op.status = 200
  /\ op.receiver_id = 1 /\ op.sender_id = 2
  /\ op.affectedRows = 0
  /\ \E i \in 1..Len(messages) :
       /\ messages[i].sender_id = 2 /\ messages[i].receiver_id = 1
       /\ messages[i].is_read = 1
  /\ \E i \in 1..Len(messages) :
       /\ messages[i].sender_id = 1 /\ messages[i].receiver_id = 1
       /\ messages[i].is_read = 0

====
